---------------------------- MODULE Spec2Model ----------------------------
(***************************************************************************)
(* UltraShip document intelligence: the document store                     *)
(* (DocumentProcessor), the retriever and answer generator (RAGEngine),    *)
(* the field extractor's entry point (StructuredExtractor) and the ask /   *)
(* extract request handlers.                                               *)
(*                                                                         *)
(* Text is a sequence of one-character strings, so that lower(), split(),  *)
(* split('. ') and the substring test act on characters as in Python.      *)
(* Floating-point values are exact rationals <<numerator, denominator>>.   *)
(* A vector is one integer coordinate; the distance of two vectors is the  *)
(* squared difference (squared Euclidean distance in one dimension).       *)
(***************************************************************************)
EXTENDS Integers, Sequences, FiniteSets, TLC

VARIABLES
    documents,    \* DocumentProcessor.documents: file_id -> entry (a dict)
    index_files,  \* vector_indices/<id>.index on disk: file_id -> blob
    chunk_files,  \* vector_indices/<id>_chunks.pkl on disk: file_id -> blob
    created,      \* number of file ids generated so far
    stored,       \* file_id -> the chunk sequence process_document stored
    use_api,      \* StructuredExtractor.use_api
    regex_calls,  \* the direct calls of extract_with_regex so far: text ->
                  \* the record of the first call, and whether other calls
                  \* followed it
    running,      \* the calls of process_document and load_document that
                  \* run step by step: caller -> operation, position, locals
    last,         \* the last request: operation, arguments, outcome
    results,      \* the last return value of retrieve_relevant_chunks
    response      \* the last return value of generate_answer

vars == <<documents, index_files, chunk_files, created, stored, use_api,
          regex_calls, running, last, results, response>>

storeVars ==
    <<documents, index_files, chunk_files, created, stored, use_api,
      regex_calls, running>>

----------------------------------------------------------------------------
(* Bounds of the model *)

MaxDocs == 2      \* file ids that process_document may generate
MaxChunks == 2    \* chunks of one document
MaxCoord == 2     \* vector coordinates range over 0..MaxCoord

Ids == 1..MaxDocs
Vecs == 0..MaxCoord

----------------------------------------------------------------------------
(* Rational arithmetic standing for Python floats *)

Abs(n) == IF n < 0 THEN -n ELSE n

RECURSIVE GCD(_, _)
GCD(a, b) == IF b = 0 THEN a ELSE GCD(b, a % b)

Rat(n, d) == LET g == GCD(Abs(n), d) IN <<n \div g, d \div g>>

RAdd(a, b) == Rat(a[1] * b[2] + b[1] * a[2], a[2] * b[2])
RMul(a, b) == Rat(a[1] * b[1], a[2] * b[2])
RLess(a, b) == a[1] * b[2] < b[1] * a[2]
RLeq(a, b) == a[1] * b[2] <= b[1] * a[2]
RMin(a, b) == IF RLess(b, a) THEN b ELSE a
RMax(a, b) == IF RLess(a, b) THEN b ELSE a
Zero == Rat(0, 1)
One == Rat(1, 1)

----------------------------------------------------------------------------
(* Python string operations on character sequences *)

UpperAlpha ==
    <<"A", "B", "C", "D", "E", "F", "G", "H", "I", "J", "K", "L", "M",
      "N", "O", "P", "Q", "R", "S", "T", "U", "V", "W", "X", "Y", "Z">>
LowerAlpha ==
    <<"a", "b", "c", "d", "e", "f", "g", "h", "i", "j", "k", "l", "m",
      "n", "o", "p", "q", "r", "s", "t", "u", "v", "w", "x", "y", "z">>

LowerOf ==
    [c \in {UpperAlpha[i] : i \in 1..26} |->
        LowerAlpha[CHOOSE i \in 1..26 : UpperAlpha[i] = c]]

LowerChar(c) == IF c \in DOMAIN LowerOf THEN LowerOf[c] ELSE c

\* str.lower()
Lower(s) == [i \in 1..Len(s) |-> LowerChar(s[i])]

IsSpace(c) == c \in {" ", "\n", "\t", "\r"}

\* str.split(): the maximal runs of non-whitespace characters
RECURSIVE SplitWS(_, _, _)
SplitWS(s, i, cur) ==
    IF i > Len(s) THEN (IF cur = <<>> THEN <<>> ELSE <<cur>>)
    ELSE IF IsSpace(s[i])
         THEN (IF cur = <<>> THEN SplitWS(s, i + 1, <<>>)
                             ELSE <<cur>> \o SplitWS(s, i + 1, <<>>))
         ELSE SplitWS(s, i + 1, Append(cur, s[i]))

Split(s) == SplitWS(s, 1, <<>>)

\* set(s.lower().split())
WordSet(s) == LET ws == Split(Lower(s)) IN {ws[i] : i \in 1..Len(ws)}

StartsAt(s, sub, i) ==
    /\ i + Len(sub) - 1 <= Len(s)
    /\ \A k \in 1..Len(sub) : s[i + k - 1] = sub[k]

\* sub in s
Contains(s, sub) == \E i \in 1..(Len(s) - Len(sub) + 1) : StartsAt(s, sub, i)

\* s.split(sep): cut at each occurrence of sep, left to right, empty parts kept
RECURSIVE SplitSepFrom(_, _, _, _)
SplitSepFrom(s, sep, i, cur) ==
    IF i > Len(s) THEN <<cur>>
    ELSE IF StartsAt(s, sep, i)
         THEN <<cur>> \o SplitSepFrom(s, sep, i + Len(sep), <<>>)
         ELSE SplitSepFrom(s, sep, i + 1, Append(cur, s[i]))

SplitSep(s, sep) == SplitSepFrom(s, sep, 1, <<>>)

\* sep.join(parts)
RECURSIVE Join(_, _)
Join(parts, sep) ==
    IF parts = <<>> THEN <<>>
    ELSE IF Len(parts) = 1 THEN parts[1]
    ELSE parts[1] \o sep \o Join(Tail(parts), sep)

\* s.strip()
RECURSIVE LStrip(_)
LStrip(s) == IF s # <<>> /\ IsSpace(s[1]) THEN LStrip(Tail(s)) ELSE s

RECURSIVE RStrip(_)
RStrip(s) ==
    IF s # <<>> /\ IsSpace(s[Len(s)]) THEN RStrip(SubSeq(s, 1, Len(s) - 1)) ELSE s

Strip(s) == RStrip(LStrip(s))

\* seq[idx] with Python's 0-based index, a negative one counting from the end
PyIndex(seq, idx) == IF idx >= 0 THEN seq[idx + 1] ELSE seq[Len(seq) + idx + 1]

\* seq[:n]
Prefix(seq, n) == SubSeq(seq, 1, IF n < Len(seq) THEN n ELSE Len(seq))

----------------------------------------------------------------------------
(* Text cleaning and chunking: DocumentProcessor.clean_text and chunk_text *)

NonEmpty(s) == s # <<>>

\* clean_text(text): the stripped non-empty lines, joined by newlines
CleanText(text) ==
    IF text = <<>> THEN <<>>
    ELSE LET split == SplitSep(text, <<"\n">>)
             lines == SelectSeq([i \in 1..Len(split) |-> Strip(split[i])],
                                NonEmpty)
         IN Join(lines, <<"\n">>)

\* text.replace('\n', ' ')
ReplaceNewlines(text) ==
    [i \in 1..Len(text) |-> IF text[i] = "\n" THEN " " ELSE text[i]]

\* text.replace('\n', ' ').split('. ')
Sentences(text) == SplitSep(ReplaceNewlines(text), <<".", " ">>)

\* words[-overlap:] if len(words) > overlap else words
OverlapWords(words, overlap) ==
    IF Len(words) > overlap /\ overlap # 0
    THEN SubSeq(words, Len(words) - overlap + 1, Len(words))
    ELSE words

\* A variant of the start of a new chunk that leaves the sentence out
SeedWithoutSentence(overlap_words, sentence) == Join(overlap_words, <<" ">>)

\* current_chunk = ' '.join(overlap_words) + " " + sentence
SeedChunk(overlap_words, sentence) ==
    Join(overlap_words, <<" ">>) \o <<" ">> \o sentence

\* The loop of chunk_text over the sentences from the k-th on
RECURSIVE ChunkLoop(_, _, _, _, _, _, _)
ChunkLoop(sentences, k, chunk_size, overlap, chunks, current_chunk, current_size) ==
    IF k > Len(sentences)
    THEN IF current_chunk # <<>> THEN Append(chunks, Strip(current_chunk))
         ELSE chunks
    ELSE
    LET sentence == Strip(sentences[k]) \o <<".", " ">>
        sentence_size == Len(Split(sentence))
    IN
    IF current_size + sentence_size <= chunk_size
    THEN ChunkLoop(sentences, k + 1, chunk_size, overlap, chunks,
                   current_chunk \o sentence, current_size + sentence_size)
    ELSE
    LET closed == IF current_chunk # <<>>
                  THEN Append(chunks, Strip(current_chunk)) ELSE chunks
        overlap_words == OverlapWords(Split(current_chunk), overlap)
        next_chunk == SeedChunk(overlap_words, sentence)
    IN ChunkLoop(sentences, k + 1, chunk_size, overlap, closed, next_chunk,
                 Len(Split(next_chunk)))

\* The iterations of the loop of chunk_text from the k-th sentence on: for
\* each, the sentence, the running chunk and the tracked size before and
\* after it, whether the sentence was appended, and the chunk closed if any
RECURSIVE ChunkSteps(_, _, _, _, _, _)
ChunkSteps(sentences, k, chunk_size, overlap, current_chunk, current_size) ==
    IF k > Len(sentences) THEN <<>>
    ELSE
    LET sentence == Strip(sentences[k]) \o <<".", " ">>
        sentence_size == Len(Split(sentence))
        fits == current_size + sentence_size <= chunk_size
        overlap_words == OverlapWords(Split(current_chunk), overlap)
        next_chunk == IF fits THEN current_chunk \o sentence
                      ELSE SeedChunk(overlap_words, sentence)
        next_size == IF fits THEN current_size + sentence_size
                     ELSE Len(Split(next_chunk))
    IN <<[sentence |-> sentence, appended |-> fits,
          chunk_before |-> current_chunk, size_before |-> current_size,
          closed |-> IF ~fits /\ current_chunk # <<>>
                     THEN <<Strip(current_chunk)>> ELSE <<>>,
          current_chunk |-> next_chunk, current_size |-> next_size]>>
       \o ChunkSteps(sentences, k + 1, chunk_size, overlap, next_chunk,
                     next_size)

\* chunk_text(text, chunk_size, overlap)
ChunkText(text, chunk_size, overlap) ==
    IF text = <<>> THEN <<>>
    ELSE SelectSeq(ChunkLoop(Sentences(text), 1, chunk_size, overlap, <<>>,
                             <<>>, 0), NonEmpty)

\* The defaults of chunk_text
ChunkSizeDefault == 500
OverlapDefault == 100

----------------------------------------------------------------------------
(* The document store: DocumentProcessor *)

NoFile == [kind |-> "none"]
CorruptFile == [kind |-> "corrupt"]
IndexBlob(xb) == [kind |-> "ok", xb |-> xb]          \* faiss.write_index
ChunksBlob(chunks) == [kind |-> "ok", chunks |-> chunks]  \* pickle.dump

\* os.path.exists
Exists(blob) == blob.kind # "none"

\* The entry process_document puts in self.documents
NewEntry(file_id, filename, chunks, index) ==
    [file_id |-> file_id, filename |-> filename, chunks |-> chunks,
     num_chunks |-> Len(chunks), index |-> index]

\* A variant of LoadedEntry that does not record the chunk count
LoadedEntryWithoutCount(file_id, index, chunks) ==
    [file_id |-> file_id, index |-> index, chunks |-> chunks]

\* The entry load_document puts in self.documents when it reads the disk
LoadedEntry(file_id, index, chunks) ==
    [file_id |-> file_id, index |-> index, chunks |-> chunks,
     num_chunks |-> Len(chunks)]

NoDoc == [file_id |-> 0]

\* load_document(file_id) on the store (docs, idx_files, chk_files):
\*   kind       "doc" (a document is returned), "none" (None is returned) or
\*              "raise" (an exception leaves the call)
\*   doc        the returned entry
\*   documents  self.documents after the call
\*   disk_reads how many blobs the call deserialized

\* The identifier is in self.documents: the entry is returned, after its
\* index is read from disk when the entry has none
LoadFromMemory(docs, idx_files, file_id) ==
    LET doc == docs[file_id] IN
    IF "index" \in DOMAIN doc \/ ~Exists(idx_files[file_id])
    THEN [kind |-> "doc", doc |-> doc, documents |-> docs, disk_reads |-> 0]
    ELSE IF idx_files[file_id].kind = "ok"
    THEN LET patched == [k \in DOMAIN doc \cup {"index"} |->
                           IF k = "index" THEN idx_files[file_id].xb ELSE doc[k]]
         IN [kind |-> "doc", doc |-> patched,
             documents |-> [docs EXCEPT ![file_id] = patched], disk_reads |-> 1]
    ELSE [kind |-> "raise", doc |-> NoDoc, documents |-> docs, disk_reads |-> 1]

\* A variant of LoadFromDisk that returns the entry without keeping it
LoadFromDiskUncached(docs, idx_files, chk_files, file_id) ==
    IF idx_files[file_id].kind = "ok" /\ chk_files[file_id].kind = "ok"
    THEN [kind |-> "doc",
          doc |-> LoadedEntry(file_id, idx_files[file_id].xb,
                              chk_files[file_id].chunks),
          documents |-> docs, disk_reads |-> 2]
    ELSE [kind |-> "none", doc |-> NoDoc, documents |-> docs, disk_reads |-> 0]

\* A variant of LoadFromDisk that lets the errors of reading a blob through
LoadFromDiskUnguarded(docs, idx_files, chk_files, file_id) ==
    IF Exists(idx_files[file_id]) /\ Exists(chk_files[file_id])
    THEN IF idx_files[file_id].kind # "ok" \/ chk_files[file_id].kind # "ok"
         THEN [kind |-> "raise", doc |-> NoDoc, documents |-> docs,
               disk_reads |-> 1]
         ELSE LET entry == LoadedEntry(file_id, idx_files[file_id].xb,
                                       chk_files[file_id].chunks)
              IN [kind |-> "doc", doc |-> entry,
                  documents |-> [k \in DOMAIN docs \cup {file_id} |->
                                   IF k = file_id THEN entry ELSE docs[k]],
                  disk_reads |-> 2]
    ELSE [kind |-> "none", doc |-> NoDoc, documents |-> docs, disk_reads |-> 0]

\* A variant of LoadFromDisk that needs the index blob only: without a
\* readable chunk blob the entry has no chunks
LoadFromDiskIndexOnly(docs, idx_files, chk_files, file_id) ==
    IF idx_files[file_id].kind = "ok"
    THEN LET entry == LoadedEntry(file_id, idx_files[file_id].xb,
                                  IF chk_files[file_id].kind = "ok"
                                  THEN chk_files[file_id].chunks ELSE <<>>)
         IN [kind |-> "doc", doc |-> entry,
             documents |-> [k \in DOMAIN docs \cup {file_id} |->
                              IF k = file_id THEN entry ELSE docs[k]],
             disk_reads |-> 2]
    ELSE [kind |-> "none", doc |-> NoDoc, documents |-> docs, disk_reads |-> 0]

\* The identifier is not in self.documents: both blobs must exist and
\* deserialize, and then the entry is kept in self.documents
LoadFromDisk(docs, idx_files, chk_files, file_id) ==
    IF Exists(idx_files[file_id]) /\ Exists(chk_files[file_id])
    THEN IF idx_files[file_id].kind # "ok"
         THEN [kind |-> "none", doc |-> NoDoc, documents |-> docs,
               disk_reads |-> 1]
         ELSE IF chk_files[file_id].kind # "ok"
         THEN [kind |-> "none", doc |-> NoDoc, documents |-> docs,
               disk_reads |-> 2]
         ELSE LET entry == LoadedEntry(file_id, idx_files[file_id].xb,
                                       chk_files[file_id].chunks)
              IN [kind |-> "doc", doc |-> entry,
                  documents |-> [k \in DOMAIN docs \cup {file_id} |->
                                   IF k = file_id THEN entry ELSE docs[k]],
                  disk_reads |-> 2]
    ELSE [kind |-> "none", doc |-> NoDoc, documents |-> docs, disk_reads |-> 0]

LoadDocument(docs, idx_files, chk_files, file_id) ==
    IF file_id \in DOMAIN docs
    THEN LoadFromMemory(docs, idx_files, file_id)
    ELSE LoadFromDisk(docs, idx_files, chk_files, file_id)

----------------------------------------------------------------------------
(* The retriever: RAGEngine.retrieve_relevant_chunks *)

\* The distance and label faiss reports for a neighbour that does not exist
\* (k larger than the number of vectors): the largest float, here a number
\* larger than every distance of the model, and the label -1.
NoNeighbourDistance == 999
NoNeighbourLabel == -1

L2(a, b) == (a - b) * (a - b)

Min(a, b) == IF a < b THEN a ELSE b

\* IndexFlatL2.search(q, k): every answer the exact search may give. The
\* first min(k, ntotal) entries are nearest vectors by ascending distance
\* (0-based labels; the order among equal distances is not fixed), the
\* remaining entries are the no-neighbour pair.
SearchOutcomes(xb, q, k) ==
    LET n == Len(xb)
        m == Min(k, n)
        picks == {f \in [1..m -> 1..n] :
                    /\ \A i, j \in 1..m : i # j => f[i] # f[j]
                    /\ \A i, j \in 1..m : i < j => L2(xb[f[i]], q) <= L2(xb[f[j]], q)
                    /\ \A r \in 1..n :
                         (\A i \in 1..m : f[i] # r) =>
                            \A i \in 1..m : L2(xb[f[i]], q) <= L2(xb[r], q)}
    IN {[i \in 1..k |->
            IF i <= m THEN [distance |-> L2(xb[f[i]], q), idx |-> f[i] - 1]
                      ELSE [distance |-> NoNeighbourDistance,
                            idx |-> NoNeighbourLabel]] : f \in picks}

\* A variant of Similarity: linear in the distance
SimilarityLinear(distance) == Rat(1 - distance, 1)

\* A variant of Similarity that grows with the distance
SimilarityGrowing(distance) == Rat(distance, 1 + distance)

\* similarity = 1 / (1 + distance)
Similarity(distance) == Rat(1, 1 + distance)

\* The loop of retrieve_relevant_chunks over the search's (distance, idx)
\* pairs: an entry is kept when idx < len(doc['chunks']).
RECURSIVE CollectResults(_, _, _)
CollectResults(chunks, found, i) ==
    IF i > Len(found) THEN <<>>
    ELSE IF found[i].idx < Len(chunks)
         THEN <<[text |-> PyIndex(chunks, found[i].idx),
                 score |-> Similarity(found[i].distance),
                 idx |-> found[i].idx]>> \o CollectResults(chunks, found, i + 1)
         ELSE CollectResults(chunks, found, i + 1)

\* retrieve_relevant_chunks(query, file_id, top_k), the query's embedding
\* being `embedding` ([kind |-> "raise"] when the embedder fails) and the
\* index search answering `found`.
\*   kind "ok" | "raise"; results: the returned list; documents: the store;
\*   embed_calls: the calls of embedding_model.encode made
RetrieveRelevantChunks(docs, idx_files, chk_files, file_id, embedding, found) ==
    LET ld == LoadDocument(docs, idx_files, chk_files, file_id) IN
    IF ld.kind = "raise"
    THEN [kind |-> "raise", results |-> <<>>, documents |-> ld.documents,
          embed_calls |-> 0]
    ELSE IF ld.kind = "none"
    THEN [kind |-> "ok", results |-> <<>>, documents |-> ld.documents,
          embed_calls |-> 0]
    ELSE IF embedding.kind = "raise"
    THEN [kind |-> "raise", results |-> <<>>, documents |-> ld.documents,
          embed_calls |-> 1]
    ELSE IF "index" \notin DOMAIN ld.doc
    THEN [kind |-> "raise", results |-> <<>>, documents |-> ld.documents,
          embed_calls |-> 1]
    ELSE [kind |-> "ok",
          results |-> CollectResults(ld.doc.chunks, found, 1),
          documents |-> ld.documents, embed_calls |-> 1]

----------------------------------------------------------------------------
(* The answer generator: RAGEngine.generate_answer *)

\* A variant of the threshold of guardrail 1
LowerThreshold == Rat(1, 10)

low_confidence_threshold == Rat(3, 10)

MSG_NO_RELEVANT ==
    <<"N", "o", " ", "r", "e", "l", "e", "v", "a", "n", "t", " ", "i", "n",
      "f", "o", "r", "m", "a", "t", "i", "o", "n", " ", "f", "o", "u", "n",
      "d", " ", "i", "n", " ", "t", "h", "e", " ", "d", "o", "c", "u", "m",
      "e", "n", "t", ".">>
MSG_CANNOT_CONFIDENTLY ==
    <<"I", " ", "c", "a", "n", "n", "o", "t", " ", "c", "o", "n", "f", "i",
      "d", "e", "n", "t", "l", "y", " ", "a", "n", "s", "w", "e", "r", " ",
      "t", "h", "i", "s", " ", "q", "u", "e", "s", "t", "i", "o", "n", " ",
      "b", "a", "s", "e", "d", " ", "o", "n", " ", "t", "h", "e", " ", "d",
      "o", "c", "u", "m", "e", "n", "t", " ", "c", "o", "n", "t", "e", "n",
      "t", ".">>
MSG_NOT_FOUND ==
    <<"N", "o", "t", " ", "f", "o", "u", "n", "d", " ", "i", "n", " ", "d",
      "o", "c", "u", "m", "e", "n", "t", ".">>
NOT_FOUND == <<"n", "o", "t", " ", "f", "o", "u", "n", "d">>
CANNOT_ANSWER ==
    <<"c", "a", "n", "n", "o", "t", " ", "a", "n", "s", "w", "e", "r">>
ELLIPSIS == <<".", ".", ".">>

\* best_chunk[:500] + "..." if len(best_chunk) > 500 else best_chunk
SourceText(best_chunk) ==
    IF Len(best_chunk) > 500 THEN Prefix(best_chunk, 500) \o ELLIPSIS
                             ELSE best_chunk

\* extract_answer_from_context: the keyword fallback
RECURSIVE RelevantSentences(_, _, _)
RelevantSentences(sentences, keywords, i) ==
    IF i > Len(sentences) THEN <<>>
    ELSE IF \E keyword \in keywords : Contains(Lower(sentences[i]), keyword)
         THEN <<sentences[i]>> \o RelevantSentences(sentences, keywords, i + 1)
         ELSE RelevantSentences(sentences, keywords, i + 1)

\* A variant of the keyword fallback that returns three sentences
ExtractThreeSentences(query, context) ==
    LET sentences == SplitSep(context, <<".", " ">>)
        relevant_sentences == RelevantSentences(sentences, WordSet(query), 1)
    IN IF relevant_sentences # <<>>
       THEN Join(Prefix(relevant_sentences, 3), <<".", " ">>) \o <<".">>
       ELSE MSG_NOT_FOUND

ExtractAnswerFromContext(query, context) ==
    LET sentences == SplitSep(context, <<".", " ">>)
        keywords == WordSet(query)
        relevant_sentences == RelevantSentences(sentences, keywords, 1)
    IN IF relevant_sentences # <<>>
       THEN Join(Prefix(relevant_sentences, 2), <<".", " ">>) \o <<".">>
       ELSE MSG_NOT_FOUND

\* "not found" in answer.lower() or "cannot answer" in answer.lower()
IndicatesNotFound(answer) ==
    \/ Contains(Lower(answer), NOT_FOUND)
    \/ Contains(Lower(answer), CANNOT_ANSWER)

\* A variant of the weighted combination whose agreement is 0, not 0.5, when
\* there is a single chunk
WeightedCombinationNoDefault(answer, context_chunks) ==
    LET answer_words == WordSet(answer)
        chunk_words == WordSet(context_chunks[1].text)
        coverage ==
            IF answer_words # {}
            THEN Rat(Cardinality(answer_words \cap chunk_words),
                     Cardinality(answer_words))
            ELSE Zero
        agreement ==
            IF Len(context_chunks) > 1
            THEN LET chunk2_words == WordSet(context_chunks[2].text)
                 IN IF chunk_words # {} /\ chunk2_words # {}
                    THEN Rat(Cardinality(chunk_words \cap chunk2_words),
                             Cardinality(chunk_words \cup chunk2_words))
                    ELSE Rat(1, 2)
            ELSE Zero
    IN RAdd(RAdd(RMul(Rat(1, 2), context_chunks[1].score),
                 RMul(Rat(3, 10), coverage)),
            RMul(Rat(1, 5), agreement))

\* calculate_confidence up to the weighted combination (before its guardrail)
WeightedCombination(answer, context_chunks) ==
    LET similarity_score == context_chunks[1].score
        best_chunk == context_chunks[1].text
        answer_words == WordSet(answer)
        chunk_words == WordSet(best_chunk)
        coverage ==
            IF answer_words # {}
            THEN Rat(Cardinality(answer_words \cap chunk_words),
                     Cardinality(answer_words))
            ELSE Zero
        agreement ==
            IF Len(context_chunks) > 1
            THEN LET chunk1_words == WordSet(context_chunks[1].text)
                     chunk2_words == WordSet(context_chunks[2].text)
                 IN IF chunk1_words # {} /\ chunk2_words # {}
                    THEN Rat(Cardinality(chunk1_words \cap chunk2_words),
                             Cardinality(chunk1_words \cup chunk2_words))
                    ELSE Rat(1, 2)
            ELSE Rat(1, 2)
    IN RAdd(RAdd(RMul(Rat(1, 2), similarity_score),
                 RMul(Rat(3, 10), coverage)),
            RMul(Rat(1, 5), agreement))

\* The condition of calculate_confidence's guardrail
DiscountInCalculate(answer) == IndicatesNotFound(answer)

\* calculate_confidence from the weighted combination on: its guardrail
\* and the clamp to [0, 1]
GuardAndClamp(answer, weighted) ==
    LET confidence == IF DiscountInCalculate(answer)
                      THEN RMul(weighted, Rat(3, 10))
                      ELSE weighted
    IN RMin(RMax(confidence, Zero), One)

CalculateConfidence(answer, context_chunks) ==
    IF context_chunks = <<>> THEN Zero
    ELSE GuardAndClamp(answer, WeightedCombination(answer, context_chunks))

\* The condition of generate_answer's guardrail 2
DiscountInGenerate(answer) == IndicatesNotFound(answer)

\* A variant of guardrail 2 that multiplies again instead of capping
Guardrail2Multiplying(answer, confidence) ==
    IF DiscountInGenerate(answer) THEN RMul(confidence, Rat(3, 10))
                                  ELSE confidence

\* Guardrail 2 of generate_answer
Guardrail2(answer, confidence) ==
    IF DiscountInGenerate(answer) THEN RMin(confidence, Rat(3, 10))
                                  ELSE confidence

\* generate_answer(query, context_chunks), the completion call answering `llm`:
\* [kind |-> "raise"] (the call fails), [kind |-> "null"] (a message without
\* content, on which .strip() fails) or [kind |-> "text", content |-> ...].
\* Besides the returned dict's four keys the record tells
\*   completion_calls  how often the completion capability was invoked
\*   path              "empty" | "guardrail1" | "model" | "fallback"
\*   weighted          the weighted combination computed by calculate_confidence
\*   guards            which not-found discounts ran: "multiply" (in
\*                     calculate_confidence), "cap" (in generate_answer)
GenerateAnswer(query, context_chunks, llm) ==
    IF context_chunks = <<>>
    THEN [answer |-> MSG_NO_RELEVANT, confidence |-> Zero,
          source_text |-> <<>>, source_chunk_index |-> -1,
          completion_calls |-> 0, path |-> "empty", weighted |-> Zero,
          guards |-> {}]
    ELSE LET context == Join([i \in 1..Len(context_chunks) |->
                                 context_chunks[i].text], <<"\n", "\n">>)
             best_chunk == context_chunks[1].text
             best_score == context_chunks[1].score
             best_idx == context_chunks[1].idx
         IN IF RLess(best_score, low_confidence_threshold)
            THEN [answer |-> MSG_CANNOT_CONFIDENTLY, confidence |-> best_score,
                  source_text |-> SourceText(best_chunk),
                  source_chunk_index |-> best_idx,
                  completion_calls |-> 0, path |-> "guardrail1",
                  weighted |-> Zero, guards |-> {}]
            ELSE LET answer == IF llm.kind = "text"
                               THEN Strip(llm.content)
                               ELSE ExtractAnswerFromContext(query, context)
                     confidence == CalculateConfidence(answer, context_chunks)
                 IN [answer |-> answer,
                     confidence |-> Guardrail2(answer, confidence),
                     source_text |-> SourceText(best_chunk),
                     source_chunk_index |-> best_idx,
                     completion_calls |-> 1,
                     path |-> IF llm.kind = "text" THEN "model" ELSE "fallback",
                     weighted |-> WeightedCombination(answer, context_chunks),
                     guards |->
                        (IF DiscountInCalculate(answer) THEN {"multiply"} ELSE {})
                        \cup (IF DiscountInGenerate(answer) THEN {"cap"} ELSE {})]

----------------------------------------------------------------------------
(* Inputs of the retriever and the answer generator *)

\* Chunks as chunk_text leaves them: sentences closed by "." and joined by " "
ChunkRate == <<"R", "a", "t", "e", ".", " ", "u", "s", "d", ".">>
ChunkUsd == <<"u", "s", "d", ".">>
ChunkTexts == {ChunkRate, ChunkUsd}

\* The chunk sequences of a document: 1..MaxChunks chunks
ChunkSeqs == UNION {[1..n -> ChunkTexts] : n \in 1..MaxChunks}

Filenames == {"bol.txt"}

\* retrieve_relevant_chunks' top_k: its default 3 and the smaller values
TopKDefault == 3
TopKs == 1..TopKDefault

\* embedding_model.encode: a vector, or the embedder fails
Embeddings ==
    {[kind |-> "raise"]} \cup {[kind |-> "ok", vec |-> v] : v \in Vecs}

Queries ==
    { <<>>,
      <<"r", "a", "t", "e">>,
      <<"A", "T", " ", "u", "s", "d">>,
      <<"z", "z">> }

\* The completion call: it fails, answers without content, or answers a text
Completions ==
    {[kind |-> "raise"], [kind |-> "null"]} \cup
    {[kind |-> "text", content |-> c] : c \in
        { <<" ">>,
          <<" ", "R", "a", "t", "e", ".", "\n">>,
          <<"u", "s", "d", " ", "z", "z">>,
          <<"N", "o", "t", " ", "F", "o", "u", "n", "d", " ", "i", "n",
            " ", "d", "o", "c", "u", "m", "e", "n", "t">>,
          <<"I", " ", "c", "a", "n", "n", "o", "t", " ", "a", "n", "s",
            "w", "e", "r", " ", "R", "a", "t", "e", ".">> }}

\* The calls of generate_answer: every query with a failing completion (the
\* fallback reads the query), one query with the other completions (a
\* completion's text does not depend on how the model reads the query)
AnswerCalls ==
    {[query |-> q, llm |-> [kind |-> "raise"]] : q \in Queries}
    \cup {[query |-> <<"r", "a", "t", "e">>, llm |-> c] :
             c \in Completions \ {[kind |-> "raise"]}}

NoResponse == [path |-> "none"]
NoRequest == [op |-> "none"]

----------------------------------------------------------------------------
(* Retrieval and answer generation on a store holding one document *)

RagInit ==
    /\ \E chunks \in ChunkSeqs, filename \in Filenames :
         \E xb \in [1..Len(chunks) -> Vecs] :
            /\ documents = [i \in {1} |-> NewEntry(1, filename, chunks, xb)]
            /\ index_files = [i \in Ids |-> IF i = 1 THEN IndexBlob(xb) ELSE NoFile]
            /\ chunk_files = [i \in Ids |-> IF i = 1 THEN ChunksBlob(chunks) ELSE NoFile]
            /\ stored = [i \in {1} |-> chunks]
    /\ created = 1
    /\ use_api = FALSE
    /\ regex_calls = <<>>
    /\ running = <<>>
    /\ last = NoRequest
    /\ results = <<>>
    /\ response = NoResponse

\* The searches the index of a loaded document may answer
Searches(ld, embedding, top_k) ==
    IF ld.kind = "doc" /\ embedding.kind = "ok" /\ "index" \in DOMAIN ld.doc
    THEN SearchOutcomes(ld.doc.index, embedding.vec, top_k)
    ELSE {<<>>}

\* A request calls retrieve_relevant_chunks(query, file_id, top_k)
Retrieve ==
    /\ last.op = "none"
    /\ \E file_id \in Ids, embedding \in Embeddings, top_k \in TopKs :
         LET ld == LoadDocument(documents, index_files, chunk_files, file_id) IN
         \E found \in Searches(ld, embedding, top_k) :
            LET r == RetrieveRelevantChunks(documents, index_files, chunk_files,
                                            file_id, embedding, found)
            IN /\ results' = r.results
               /\ documents' = r.documents
               /\ last' = [op |-> "retrieve", file_id |-> file_id,
                           top_k |-> top_k, status |-> r.kind, found |-> found]
               /\ response' = NoResponse
               /\ UNCHANGED <<index_files, chunk_files, created, stored, use_api,
                    regex_calls, running>>

\* The request passes the retrieved chunks to generate_answer
Answer ==
    /\ last.op = "retrieve"
    /\ last.status = "ok"
    /\ \E call \in AnswerCalls :
          /\ response' = GenerateAnswer(call.query, results, call.llm)
          /\ last' = [op |-> "answer", file_id |-> last.file_id,
                      query |-> call.query, llm |-> call.llm]
    /\ UNCHANGED <<results, storeVars>>

\* The request returns to its caller
Deliver ==
    /\ last.op # "none"
    /\ last' = NoRequest
    /\ results' = <<>>
    /\ response' = NoResponse
    /\ UNCHANGED storeVars

RagNext == Retrieve \/ Answer \/ Deliver

SpecRag == RagInit /\ [][RagNext]_vars

----------------------------------------------------------------------------
(* Properties of the answer generator and the retriever (SpecRag) *)

Answered == response.path # "none"

\* The context generate_answer builds from the retrieved chunks
ContextOf(context_chunks) ==
    Join([i \in 1..Len(context_chunks) |-> context_chunks[i].text],
         <<"\n", "\n">>)

\* C5: the completion capability is invoked only for non-empty results whose
\* top similarity is at least 0.3; a top similarity below 0.3 gives the fixed
\* "cannot confidently answer" response with that similarity as confidence,
\* empty results give the fixed "no relevant information" response with
\* confidence 0, both without a completion call.
C5_CompletionOnlyAboveThreshold ==
    Answered =>
       /\ response.completion_calls > 0 =>
             /\ results # <<>>
             /\ RLeq(Rat(3, 10), results[1].score)
       /\ results = <<>> =>
             /\ response.answer = MSG_NO_RELEVANT
             /\ response.confidence = Zero
             /\ response.completion_calls = 0
       /\ (results # <<>> /\ RLess(results[1].score, Rat(3, 10))) =>
             /\ response.answer = MSG_CANNOT_CONFIDENTLY
             /\ response.confidence = results[1].score
             /\ response.completion_calls = 0

\* A response of guardrail 1: top similarity 1/5, no completion call
C5_Witness ==
    /\ Answered
    /\ results # <<>>
    /\ results[1].score = Rat(1, 5)
    /\ response.answer = MSG_CANNOT_CONFIDENTLY
    /\ response.completion_calls = 0

\* C6: the confidence of every response of generate_answer lies in [0, 1].
C6_ConfidenceInUnitInterval ==
    Answered =>
       /\ RLeq(Zero, response.confidence)
       /\ RLeq(response.confidence, One)

\* An answer without words on a context of a single chunk
C6_Witness ==
    /\ Answered
    /\ response.path = "model"
    /\ WordSet(response.answer) = {}
    /\ Len(results) = 1
    /\ RLess(Zero, response.confidence)

\* The composite confidence as the specification states it
Clamp01(x) == RMin(RMax(x, Zero), One)

Jaccard(X, Y) ==
    IF X \cup Y = {} THEN Zero
    ELSE Rat(Cardinality(X \cap Y), Cardinality(X \cup Y))

StatedComposite(answer, retrieved) ==
    LET A == WordSet(answer)
        top == WordSet(retrieved[1].text)
        overlap == IF A = {} THEN Zero
                   ELSE Rat(Cardinality(A \cap top), Cardinality(A))
        agree == IF Len(retrieved) >= 2
                 THEN Jaccard(top, WordSet(retrieved[2].text))
                 ELSE Rat(1, 2)
    IN Clamp01(RAdd(RMul(Rat(5, 10), retrieved[1].score),
                    RAdd(RMul(Rat(3, 10), overlap), RMul(Rat(2, 10), agree))))

SaysNotFound(answer) ==
    \/ Contains(Lower(answer), NOT_FOUND)
    \/ Contains(Lower(answer), CANNOT_ANSWER)

Generated == Answered /\ response.path \in {"model", "fallback"}

\* C7, exactly one guardrail: on an answer that says "not found" or "cannot answer" the
\* discount is applied exactly once, by one multiplication by 0.3 or by one
\* cap at 0.3, never by both on the same response.
C7_DiscountAppliedOnce ==
    (Generated /\ SaysNotFound(response.answer)) =>
       /\ Cardinality(response.guards) = 1
       /\ \/ response.confidence =
                RMul(StatedComposite(response.answer, results), Rat(3, 10))
          \/ response.confidence =
                RMin(StatedComposite(response.answer, results), Rat(3, 10))

\* C7, one discount in value: on such an answer both the multiplication by 0.3 (in
\* calculate_confidence) and the cap at 0.3 (in generate_answer) run, on the
\* model path and on the fallback path alike; the cap does not change the
\* value, and the returned confidence is the weighted sum times 0.3, once.
C7_DiscountMultipliesOnce ==
    (Generated /\ SaysNotFound(response.answer)) =>
       /\ response.guards = {"multiply", "cap"}
       /\ response.confidence =
             RMul(StatedComposite(response.answer, results), Rat(3, 10))
       /\ RLess(Zero, response.confidence)
       /\ response.confidence #
             RMul(StatedComposite(response.answer, results), Rat(9, 100))

\* A fallback answer "Not found in document." with its discounted confidence
C7_Witness ==
    /\ Generated
    /\ response.path = "fallback"
    /\ response.answer = MSG_NOT_FOUND
    /\ RLess(response.confidence, Rat(3, 10))

\* C8: before the guardrails the composite confidence is
\* 0.5 * similarity + 0.3 * coverage + 0.2 * agreement, clamped to [0, 1]; it
\* is the returned confidence of an answer that does not say "not found".
C8_CompositeFormula ==
    Generated =>
       /\ response.weighted = StatedComposite(response.answer, results)
       /\ ~SaysNotFound(response.answer) =>
             response.confidence = StatedComposite(response.answer, results)

\* Two results, an answer partly covered by the top chunk, no discount
C8_Witness ==
    /\ Generated
    /\ Len(results) >= 2
    /\ ~SaysNotFound(response.answer)
    /\ WordSet(response.answer) \cap WordSet(results[1].text) # {}
    /\ WordSet(response.answer) \ WordSet(results[1].text) # {}
    /\ WordSet(results[1].text) # WordSet(results[2].text)

\* The keyword fallback as the specification states it: the positions of the
\* context sentences that contain a lowercase query word
MatchingSentences(query, context) ==
    LET sentences == SplitSep(context, <<".", " ">>)
    IN {i \in 1..Len(sentences) :
           \E w \in WordSet(query) : Contains(Lower(sentences[i]), w)}

MinOf(S) == CHOOSE x \in S : \A y \in S : x <= y

StatedFallback(query, context) ==
    LET sentences == SplitSep(context, <<".", " ">>)
        M == MatchingSentences(query, context)
    IN IF M = {} THEN MSG_NOT_FOUND
       ELSE IF Cardinality(M) = 1 THEN sentences[MinOf(M)] \o <<".">>
       ELSE sentences[MinOf(M)] \o <<".", " ">>
            \o sentences[MinOf(M \ {MinOf(M)})] \o <<".">>

\* C9: when the completion call fails, generate_answer still returns a
\* response, whose answer is the first two context sentences that contain a
\* lowercase query word, or "Not found in document." when none does.
C9_FallbackOnCompletionFailure ==
    (/\ last.op = "answer"
     /\ last.llm.kind = "raise"
     /\ results # <<>>
     /\ RLeq(Rat(3, 10), results[1].score)) =>
       /\ response.path = "fallback"
       /\ response.answer = StatedFallback(last.query, ContextOf(results))
       /\ Cardinality(MatchingSentences(last.query, ContextOf(results))) = 0
             => response.answer = MSG_NOT_FOUND

\* The fallback answered from a context with three matching sentences
C9_Witness ==
    /\ last.op = "answer"
    /\ last.llm.kind = "raise"
    /\ response.path = "fallback"
    /\ Cardinality(MatchingSentences(last.query, ContextOf(results))) >= 3

\* C10: every result of retrieve_relevant_chunks has a position p with
\* 0 <= p < number of chunks and the text chunks[p].
C10_ResultPositionsInRange ==
    (/\ last.op = "retrieve"
     /\ last.status = "ok"
     /\ last.file_id \in DOMAIN documents) =>
       \A i \in 1..Len(results) :
          /\ 0 <= results[i].idx
          /\ results[i].idx < Len(documents[last.file_id].chunks)
          /\ results[i].text = documents[last.file_id].chunks[results[i].idx + 1]

----------------------------------------------------------------------------
(* The store and the request handlers *)

EmptyMap == [i \in {} |-> NoDoc]

\* The texts uploaded, as chunk_text cuts them: one chunk, or MaxChunks chunks
Uploads ==
    {[i \in 1..n |-> IF i = n THEN ChunkUsd ELSE ChunkRate] : n \in {1, MaxChunks}}

\* embedding_model.encode(chunks): one vector per chunk, the same vector for
\* the same text
EncodeText(text) == IF text = ChunkRate THEN 0 ELSE MaxCoord
ChunkEmbeddings(chunks) == {[i \in 1..Len(chunks) |-> EncodeText(chunks[i])]}

\* embedding_model.encode([question]): the vector of the question, or the
\* embedder fails
QuestionEmbeddings(question) ==
    {[kind |-> "raise"], [kind |-> "ok", vec |-> EncodeText(question)]}

\* A variant of the assignment that keeps the new key only
PutAlone(map, key, value) == [k \in {key} |-> value]

\* dict[key] = value
Put(map, key, value) ==
    [k \in DOMAIN map \cup {key} |-> IF k = key THEN value ELSE map[k]]

\* A blob left behind by a write that failed: no file, or a partial file
FailedWrites == {NoFile, CorruptFile}

Init ==
    /\ documents = EmptyMap
    /\ index_files = [i \in Ids |-> NoFile]
    /\ chunk_files = [i \in Ids |-> NoFile]
    /\ created = 0
    /\ stored = EmptyMap
    /\ use_api \in BOOLEAN
    /\ regex_calls = <<>>
    /\ running = <<>>
    /\ last = NoRequest
    /\ results = <<>>
    /\ response = NoResponse

\* process_document(file_content, filename). It raises when no text can be
\* extracted or the embedder fails (nothing is written), when writing the
\* index blob fails, or when writing the chunk blob fails; otherwise it
\* writes both blobs and then stores the entry in memory.
ProcessDocument ==
    /\ last.op = "none"
    /\ created < MaxDocs
    /\ created' = created + 1
    /\ results' = <<>>
    /\ response' = NoResponse
    /\ UNCHANGED <<use_api, regex_calls, running>>
    /\ \E filename \in Filenames :
         LET file_id == created + 1 IN
         \/ /\ last' = [op |-> "process", file_id |-> file_id, status |-> "raise",
                        step |-> "text"]
            /\ UNCHANGED <<documents, index_files, chunk_files, stored>>
         \/ \E chunks \in Uploads :
              \/ /\ last' = [op |-> "process", file_id |-> file_id,
                             status |-> "raise", step |-> "embed"]
                 /\ UNCHANGED <<documents, index_files, chunk_files, stored>>
              \/ \E embeddings \in ChunkEmbeddings(chunks) :
                   LET index == embeddings IN
                   \/ \E blob \in FailedWrites :
                        /\ index_files' = [index_files EXCEPT ![file_id] = blob]
                        /\ last' = [op |-> "process", file_id |-> file_id,
                                    status |-> "raise", step |-> "write_index"]
                        /\ UNCHANGED <<documents, chunk_files, stored>>
                   \/ \E blob \in FailedWrites :
                        /\ index_files' = [index_files EXCEPT
                                             ![file_id] = IndexBlob(index)]
                        /\ chunk_files' = [chunk_files EXCEPT ![file_id] = blob]
                        /\ last' = [op |-> "process", file_id |-> file_id,
                                    status |-> "raise", step |-> "write_chunks"]
                        /\ UNCHANGED <<documents, stored>>
                   \/ /\ index_files' = [index_files EXCEPT
                                           ![file_id] = IndexBlob(index)]
                      /\ chunk_files' = [chunk_files EXCEPT
                                           ![file_id] = ChunksBlob(chunks)]
                      /\ documents' = Put(documents, file_id,
                                          NewEntry(file_id, filename, chunks, index))
                      /\ stored' = Put(stored, file_id, chunks)
                      /\ last' = [op |-> "process", file_id |-> file_id,
                                  status |-> "ok", step |-> "done"]

\* load_document(file_id)
Load ==
    /\ last.op = "none"
    /\ \E file_id \in Ids :
       LET ld == LoadDocument(documents, index_files, chunk_files, file_id) IN
       /\ documents' = ld.documents
       /\ last' = [op |-> "load", file_id |-> file_id, kind |-> ld.kind,
                   doc |-> ld.doc, disk_reads |-> ld.disk_reads]
       /\ results' = <<>>
       /\ response' = NoResponse
       /\ UNCHANGED <<index_files, chunk_files, created, stored, use_api,
                    regex_calls, running>>

\* The process restarts: the in-memory map is lost, the disk is kept
Restart ==
    /\ last.op = "none"
    /\ documents # EmptyMap
    /\ documents' = EmptyMap
    /\ last' = [op |-> "restart"]
    /\ results' = <<>>
    /\ response' = NoResponse
    /\ UNCHANGED <<index_files, chunk_files, created, stored, use_api,
                    regex_calls, running>>

MSG_EMPTY_DOCUMENT ==
    <<"T", "h", "e", " ", "d", "o", "c", "u", "m", "e", "n", "t", " ", "a",
      "p", "p", "e", "a", "r", "s", " ", "t", "o", " ", "b", "e", " ", "e",
      "m", "p", "t", "y", " ", "o", "r", " ", "c", "o", "u", "l", "d", "n",
      "'", "t", " ", "b", "e", " ", "p", "r", "o", "c", "e", "s", "s", "e",
      "d", ".">>
MSG_NO_RELEVANT_FOR_QUESTION ==
    <<"N", "o", " ", "r", "e", "l", "e", "v", "a", "n", "t", " ", "i", "n",
      "f", "o", "r", "m", "a", "t", "i", "o", "n", " ", "f", "o", "u", "n",
      "d", " ", "i", "n", " ", "t", "h", "e", " ", "d", "o", "c", "u", "m",
      "e", "n", "t", " ", "f", "o", "r", " ", "y", "o", "u", "r", " ", "q",
      "u", "e", "s", "t", "i", "o", "n", ".">>

\* The questions of the ask requests: one is blank
Questions == { <<"r", "a", "t", "e">>, <<" ", " ">> }

\* The completion call of an ask request
AskCompletions ==
    {[kind |-> "raise"],
     [kind |-> "text", content |-> <<"R", "a", "t", "e", ".">>]}

\* AskResponse(answer, confidence, source_text, source_chunk_index)
AskResponse(answer, confidence, source_text, source_chunk_index) ==
    [answer |-> answer, confidence |-> confidence,
     source_text |-> source_text, source_chunk_index |-> source_chunk_index]

NoBody == [answer |-> <<>>]

\* What ask_question does to the store, its retrieved chunks, the result of
\* generate_answer and its HTTP reply, for one search answer 'found'
AskQuestion(docs, file_id, question, embedding, found, llm) ==
    LET ld == LoadDocument(docs, index_files, chunk_files, file_id)
        quiet == [documents |-> ld.documents, chunks |-> <<>>,
                  result |-> NoResponse, existed |-> ld.kind = "doc",
                  embed_calls |-> 0, completion_calls |-> 0]
    IN
    IF Strip(question) = <<>>
    THEN [documents |-> docs, chunks |-> <<>>, result |-> NoResponse,
          existed |-> file_id \in DOMAIN docs, status |-> 400, body |-> NoBody,
          embed_calls |-> 0, completion_calls |-> 0]
    ELSE IF ld.kind = "raise"
    THEN [quiet EXCEPT !.existed = TRUE] @@ [status |-> 500, body |-> NoBody]
    ELSE IF ld.kind = "none"
    THEN quiet @@ [status |-> 404, body |-> NoBody]
    ELSE IF Len(ld.doc.chunks) = 0
    THEN quiet @@ [status |-> 200,
                   body |-> AskResponse(MSG_EMPTY_DOCUMENT, Zero, <<>>, -1)]
    ELSE
    LET r == RetrieveRelevantChunks(ld.documents, index_files, chunk_files,
                                    file_id, embedding, found)
    IN
    IF r.kind = "raise"
    THEN [quiet EXCEPT !.documents = r.documents,
                       !.embed_calls = r.embed_calls]
            @@ [status |-> 500, body |-> NoBody]
    ELSE IF r.results = <<>>
    THEN [quiet EXCEPT !.documents = r.documents,
                       !.embed_calls = r.embed_calls]
            @@ [status |-> 200,
                body |-> AskResponse(MSG_NO_RELEVANT_FOR_QUESTION, Zero, <<>>, -1)]
    ELSE
    LET result == GenerateAnswer(question, r.results, llm) IN
    [documents |-> r.documents, chunks |-> r.results, result |-> result,
     existed |-> TRUE, status |-> 200, embed_calls |-> r.embed_calls,
     completion_calls |-> result.completion_calls,
     body |-> AskResponse(result.answer, result.confidence,
                          result.source_text, result.source_chunk_index)]

\* POST /ask
Ask ==
    /\ last.op = "none"
    /\ \E file_id \in Ids, question \in Questions, llm \in AskCompletions :
       \E embedding \in QuestionEmbeddings(question) :
       LET ld == LoadDocument(documents, index_files, chunk_files, file_id) IN
       \E found \in Searches(ld, embedding, TopKDefault) :
          LET a == AskQuestion(documents, file_id, question, embedding, found, llm)
          IN /\ documents' = a.documents
             /\ results' = a.chunks
             /\ response' = a.result
             /\ last' = [op |-> "ask", file_id |-> file_id, question |-> question,
                         existed |-> a.existed, embedding |-> embedding.kind,
                         llm |-> llm.kind, status |-> a.status, body |-> a.body,
                         embed_calls |-> a.embed_calls,
                         completion_calls |-> a.completion_calls,
                         extractor_calls |-> 0]
             /\ UNCHANGED <<index_files, chunk_files, created, stored, use_api,
                    regex_calls, running>>

----------------------------------------------------------------------------
(* Regular expressions as re.search evaluates them, with re.IGNORECASE and  *)
(* re.MULTILINE: a pattern is a tree, and matching it at a position gives   *)
(* the ways it can match in the order backtracking tries them.              *)

LetterSet == {UpperAlpha[i] : i \in 1..26} \cup {LowerAlpha[i] : i \in 1..26}
DigitSet == {"0", "1", "2", "3", "4", "5", "6", "7", "8", "9"}
WordChars == LetterSet \cup DigitSet \cup {"_"}

\* A pattern is a tree of nodes: "chars" (one character of a set), "cat"
\* (parts in a row), "alt" (alternatives in order), "rep" (min to max
\* repetitions, greedy or lazy), "group" (the capture group), "wordb" (\b)
\* and "eol" ($)

NoCapture == <<0, 0>>

\* Body applied to the value of an expression, which is evaluated once
Bind(value, Body(_)) == CHOOSE result \in {Body(x) : x \in {value}} : TRUE

RECURSIVE MatchAt(_, _, _, _)
RECURSIVE MatchNode(_, _, _, _)
RECURSIVE MatchCat(_, _, _, _, _)
RECURSIVE MatchCatEach(_, _, _, _, _)
RECURSIVE MatchAlt(_, _, _, _, _)
RECURSIVE MatchRep(_, _, _, _, _)
RECURSIVE MatchRepEach(_, _, _, _, _, _)

\* The matches of pattern r on s from position i, the capture being cap so
\* far: a sequence of [pos, cap], pos the position after the match
MatchAt(r, s, i, cap) ==
    Bind(<<r, s, i, cap>>, LAMBDA a : MatchNode(a[1], a[2], a[3], a[4]))

MatchNode(r, s, i, cap) ==
    IF r.t = "chars"
    THEN IF i <= Len(s) /\ s[i] \in r.set
         THEN <<[pos |-> i + 1, cap |-> cap]>> ELSE <<>>
    ELSE IF r.t = "cat" THEN MatchCat(r.parts, 1, s, i, cap)
    ELSE IF r.t = "alt" THEN MatchAlt(r.parts, 1, s, i, cap)
    ELSE IF r.t = "rep" THEN MatchRep(r, 0, s, i, cap)
    ELSE IF r.t = "group"
    THEN Bind(MatchAt(r.of, s, i, cap), LAMBDA inner :
            [k \in 1..Len(inner) |->
               [pos |-> inner[k].pos, cap |-> <<i, inner[k].pos - 1>>]])
    ELSE IF r.t = "wordb"
    THEN LET before == i > 1 /\ s[i - 1] \in WordChars
             after == i <= Len(s) /\ s[i] \in WordChars
         IN IF before # after THEN <<[pos |-> i, cap |-> cap]>> ELSE <<>>
    ELSE \* "eol"
         IF i = Len(s) + 1 \/ s[i] = "\n"
         THEN <<[pos |-> i, cap |-> cap]>> ELSE <<>>

\* The parts from the k-th on, one after the other
MatchCat(parts, k, s, i, cap) ==
    IF k > Len(parts) THEN <<[pos |-> i, cap |-> cap]>>
    ELSE Bind(<<k, MatchAt(parts[k], s, i, cap)>>, LAMBDA a :
            MatchCatEach(parts, a[1], s, a[2], 1))

MatchCatEach(parts, k, s, heads, h) ==
    IF h > Len(heads) THEN <<>>
    ELSE MatchCat(parts, k + 1, s, heads[h].pos, heads[h].cap)
            \o MatchCatEach(parts, k, s, heads, h + 1)

MatchAlt(parts, k, s, i, cap) ==
    IF k > Len(parts) THEN <<>>
    ELSE MatchAt(parts[k], s, i, cap) \o MatchAlt(parts, k + 1, s, i, cap)

\* n repetitions are done; one more is tried before (greedy) or after (lazy)
\* stopping
MatchRep(r, n, s, i, cap) ==
    Bind(<<r, n, s, i, cap,
           IF n < r.max THEN MatchAt(r.of, s, i, cap) ELSE <<>>>>, LAMBDA a :
       LET stop == IF a[2] >= a[1].min
                   THEN <<[pos |-> a[4], cap |-> a[5]]>> ELSE <<>>
           more == MatchRepEach(a[1], a[2], a[3], a[4], a[6], 1)
       IN IF a[1].greedy THEN more \o stop ELSE stop \o more)

MatchRepEach(r, n, s, i, heads, h) ==
    IF h > Len(heads) THEN <<>>
    ELSE (IF heads[h].pos > i
          THEN MatchRep(r, n + 1, s, heads[h].pos, heads[h].cap) ELSE <<>>)
            \o MatchRepEach(r, n, s, i, heads, h + 1)

\* re.search(r, s): the leftmost match, the first one backtracking finds:
\* [found, from, to, cap], s[from..to] the match and s[cap[1]..cap[2]] group 1
Search(r, s) ==
    Bind(<<r, s>>, LAMBDA a :
       Bind({i \in 1..(Len(a[2]) + 1) :
                MatchAt(a[1], a[2], i, NoCapture) # <<>>},
            LAMBDA starts :
               IF starts = {} THEN [found |-> FALSE]
               ELSE Bind(CHOOSE i \in starts : \A j \in starts : i <= j,
                         LAMBDA from :
                     Bind(MatchAt(a[1], a[2], from, NoCapture), LAMBDA ms :
                        [found |-> TRUE, from |-> from, to |-> ms[1].pos - 1,
                         cap |-> ms[1].cap]))))

----------------------------------------------------------------------------
(* The structured extractor *)

\* A JSON value: null, a string, a number or a non-empty list
JNull == [t |-> "null"]
JStr(s) == [t |-> "str", v |-> s]
JNum(r) == [t |-> "num", num |-> r]
JList == [t |-> "list"]

\* Python's truth value of a JSON value
Truthy(x) ==
    \/ x.t = "str" /\ x.v # <<>>
    \/ x.t = "num" /\ x.num # Zero
    \/ x.t = "list"

required_fields ==
    {"shipment_id", "shipper", "consignee", "pickup_datetime",
     "delivery_datetime", "equipment_type", "mode", "rate", "currency",
     "weight", "carrier_name"}
NameFields == {"shipper", "consignee", "carrier_name"}
FloatFields == {"rate", "weight"}
DateFields == {"pickup_datetime", "delivery_datetime"}

\* get_empty_result()
EmptyResult == [f \in required_fields |-> JNull]

UpperOf ==
    [c \in {LowerAlpha[i] : i \in 1..26} |->
        UpperAlpha[CHOOSE i \in 1..26 : LowerAlpha[i] = c]]

\* str.upper()
Upper(s) == [i \in 1..Len(s) |-> IF s[i] \in DOMAIN UpperOf THEN UpperOf[s[i]] ELSE s[i]]

\* re.sub(r'\s+', ' ', s)
RECURSIVE CollapseSpaces(_)
CollapseSpaces(s) ==
    IF s = <<>> THEN <<>>
    ELSE IF IsSpace(s[1])
         THEN IF Len(s) > 1 /\ IsSpace(s[2])
              THEN CollapseSpaces(Tail(s))
              ELSE <<" ">> \o CollapseSpaces(Tail(s))
         ELSE <<s[1]>> \o CollapseSpaces(Tail(s))

\* re.sub(r'[,:;]$', '', s): '$' is the end of s or the place before a final newline
DropTrailingSeparator(s) ==
    LET n == Len(s) IN
    IF n >= 1 /\ s[n] \in {",", ":", ";"} THEN SubSeq(s, 1, n - 1)
    ELSE IF n >= 2 /\ s[n] = "\n" /\ s[n - 1] \in {",", ":", ";"}
    THEN SubSeq(s, 1, n - 2) \o <<"\n">>
    ELSE s

Digits == <<"0", "1", "2", "3", "4", "5", "6", "7", "8", "9">>
IsDigit(c) == \E i \in 1..10 : Digits[i] = c
DigitValue(c) == (CHOOSE i \in 1..10 : Digits[i] = c) - 1

\* re.sub(r'[^\d.]', '', s)
DigitsAndDots(s) == SelectSeq(s, LAMBDA c : IsDigit(c) \/ c = ".")

RECURSIVE IntOf(_)
IntOf(s) == IF s = <<>> THEN 0 ELSE IntOf(SubSeq(s, 1, Len(s) - 1)) * 10 + DigitValue(s[Len(s)])

RECURSIVE Pow10(_)
Pow10(n) == IF n = 0 THEN 1 ELSE 10 * Pow10(n - 1)

\* float(s) of a string of digits and dots: it needs a digit and at most one dot
FloatParses(s) ==
    /\ \E i \in 1..Len(s) : IsDigit(s[i])
    /\ \A i \in 1..Len(s) : IsDigit(s[i]) \/ s[i] = "."
    /\ Cardinality({i \in 1..Len(s) : s[i] = "."}) <= 1
FloatOf(s) ==
    LET digits == SelectSeq(s, IsDigit)
        dot == IF \E i \in 1..Len(s) : s[i] = "."
               THEN CHOOSE i \in 1..Len(s) : s[i] = "." ELSE Len(s) + 1
        decimals == Len(s) - (IF dot > Len(s) THEN Len(s) ELSE dot)
    IN Rat(IntOf(digits), Pow10(decimals))

\* the cleaning of 'rate' and of 'weight'
CleanNumber(x) ==
    IF ~Truthy(x) THEN x
    ELSE IF x.t = "str"
    THEN LET cleaned_str == DigitsAndDots(x.v) IN
         IF cleaned_str = <<>> THEN JNull
         ELSE IF FloatParses(cleaned_str) THEN JNum(FloatOf(cleaned_str))
         ELSE JNull
    ELSE x

\* re.search(r'([A-Z]{3})', s): the first three capitals in a row
IsUpperChar(c) == \E i \in 1..26 : UpperAlpha[i] = c
ThreeCapitalsAt(s) ==
    {i \in 1..(Len(s) - 2) : \A j \in i..(i + 2) : IsUpperChar(s[j])}

CleanCurrency(x) ==
    IF Truthy(x) /\ x.t = "str"
    THEN LET u == Upper(x.v)
             at == ThreeCapitalsAt(u) IN
         IF at # {}
         THEN LET i == CHOOSE i \in at : \A j \in at : i <= j
              IN JStr(SubSeq(u, i, i + 2))
         ELSE JNull
    ELSE x

CleanName(x) ==
    IF Truthy(x) /\ x.t = "str"
    THEN JStr(DropTrailingSeparator(Strip(CollapseSpaces(x.v))))
    ELSE x

CleanDate(x) == IF Truthy(x) /\ x.t = "str" THEN JStr(Strip(x.v)) ELSE x

\* A variant of clean_extracted_data that cleans the fields given only
CleanGivenFields(data) ==
    [f \in DOMAIN data |->
        IF f \in NameFields THEN CleanName(data[f])
        ELSE IF f \in FloatFields THEN CleanNumber(data[f])
        ELSE IF f = "currency" THEN CleanCurrency(data[f])
        ELSE IF f \in DateFields THEN CleanDate(data[f])
        ELSE data[f]]

\* clean_extracted_data(data)
CleanExtractedData(data) ==
    [f \in required_fields |->
        LET x == IF f \in DOMAIN data THEN data[f] ELSE JNull IN
        IF f \in NameFields THEN CleanName(x)
        ELSE IF f \in FloatFields THEN CleanNumber(x)
        ELSE IF f = "currency" THEN CleanCurrency(x)
        ELSE IF f \in DateFields THEN CleanDate(x)
        ELSE x]

(* The patterns of extract_with_regex, field by field in list order *)

patterns ==
    LET
        SpaceSet == {" ", "\n", "\t", "\r"}

        \* Both cases of a character (re.IGNORECASE)
        BothCases(c) ==
            {c} \cup (IF c \in DOMAIN LowerOf THEN {LowerOf[c]} ELSE {})
                \cup (IF \E u \in DOMAIN LowerOf : LowerOf[u] = c
                      THEN {CHOOSE u \in DOMAIN LowerOf : LowerOf[u] = c} ELSE {})

        Unbounded == 1000

        \* The nodes of a pattern
        Chars(S) == [t |-> "chars", set |-> S]             \* one character of S
        Cat(parts) == [t |-> "cat", parts |-> parts]       \* r1 r2 ...
        Alt(parts) == [t |-> "alt", parts |-> parts]       \* r1|r2|...
        Rep(r, min, max) == [t |-> "rep", of |-> r, min |-> min, max |-> max, greedy |-> TRUE]
        Lazy(r, min, max) == [t |-> "rep", of |-> r, min |-> min, max |-> max, greedy |-> FALSE]
        Group(r) == [t |-> "group", of |-> r]              \* ( r )
        WordBoundary == [t |-> "wordb"]                    \* \b
        EndOfLine == [t |-> "eol"]                         \* $
        Lit(str) == Cat([i \in 1..Len(str) |-> Chars(BothCases(str[i]))])

        Opt(r) == Rep(r, 0, 1)                             \* r?
        Star(r) == Rep(r, 0, Unbounded)                    \* r*
        Plus(r) == Rep(r, 1, Unbounded)                    \* r+
        Spaces == Star(Chars(SpaceSet))                    \* \s*
        Digit == Chars(DigitSet)                           \* \d

        AlnumSet == LetterSet \cup DigitSet
        NameSet == LetterSet \cup DigitSet \cup SpaceSet \cup {"&", ".", ","}
        EquipmentSet == LetterSet \cup DigitSet \cup SpaceSet \cup {"-", "/"}

        Separator == Opt(Chars({"#", ":", ";"}))           \* [#:;]?
        ColonOrNewline == Chars({":", "\n"})               \* [:\n]
        Newline == Chars({"\n"})
        LineEnd == Alt(<<Newline, EndOfLine>>)             \* (?:\n|$)
        LineEndOrPhone ==                                  \* (?:\n|$|Tel|Fax|Phone)
            Alt(<<Newline, EndOfLine, Lit(<<"T", "e", "l">>), Lit(<<"F", "a", "x">>),
                Lit(<<"P", "h", "o", "n", "e">>)>>)
        Identifier ==                                      \* ([A-Z0-9][-A-Z0-9]{3,20})
            Group(Cat(<<Chars(AlnumSet), Rep(Chars(AlnumSet \cup {"-"}), 3, 20)>>))
        Name == Group(Lazy(Chars(NameSet), 1, Unbounded))  \* ([A-Za-z0-9\s&\.,]+?)
        DateOnly ==                                        \* \d{1,2}[/-]\d{1,2}[/-]\d{2,4}
            Cat(<<Rep(Digit, 1, 2), Chars({"/", "-"}), Rep(Digit, 1, 2),
                  Chars({"/", "-"}), Rep(Digit, 2, 4)>>)
        TimeOfDay == Cat(<<Rep(Digit, 1, 2), Chars({":"}), Rep(Digit, 2, 2)>>)
        AmPm == Opt(Alt(<<Lit(<<"A", "M">>), Lit(<<"P", "M">>)>>))
        Thousands(first) ==                                \* \d{1,first}(?:,\d{3})*
            Cat(<<Rep(Digit, 1, first), Star(Cat(<<Chars({","}), Rep(Digit, 3,
                3)>>))>>)
        Money ==                                           \* \d{1,3}(?:,\d{3})*(?:\.\d{2})?
            Cat(<<Thousands(3), Opt(Cat(<<Chars({"."}), Rep(Digit, 2, 2)>>))>>)
        Pounds ==                                          \* \d{1,5}(?:,\d{3})*(?:\.\d{1})?
            Cat(<<Thousands(5), Opt(Cat(<<Chars({"."}), Digit>>))>>)
        WeightUnit == Alt(<<Lit(<<"L", "B", "S">>), Lit(<<"L", "B">>), Lit(<<"P",
            "O", "U", "N", "D", "S">>), Lit(<<"K", "G">>), Lit(<<"K", "G", "S">>)>>)
        PickupWord == Alt(<<Lit(<<"P", "I", "C", "K", "U", "P">>), Lit(<<"P", "U">>),
            Lit(<<"P", "I", "C", "K", " ", "U", "P">>)>>)
        DeliveryWord ==
            Alt(<<Cat(<<Lit(<<"D", "E", "L", "I", "V", "E", "R">>),
                Opt(Lit(<<"Y">>))>>), Lit(<<"D", "E", "L">>), Cat(<<Lit(<<"D", "R",
                    "O", "P">>), Opt(Lit(<<" ", "O", "F", "F">>))>>)>>)
        DateWord == Opt(Alt(<<Lit(<<"D", "A", "T", "E">>), Lit(<<"T", "I", "M",
            "E">>), Lit(<<"D", "T">>)>>))
        Feet == Opt(Alt(<<Lit(<<"F", "T">>), Lit(<<"F", "O", "O", "T">>)>>))
        Quote == Opt(Chars({"'", "\""}))
    IN
    [shipment_id |-> <<
        Cat(<<Alt(<<Lit(<<"B", "O", "L">>), Lit(<<"P", "R", "O">>),
            Cat(<<Lit(<<"R", "E", "F">>), Opt(Lit(<<"E", "R", "E", "N", "C",
                "E">>))>>),
                    Cat(<<Lit(<<"S", "H", "I", "P">>), Opt(Lit(<<"M", "E",
                        "N", "T">>))>>), Lit(<<"L", "O", "A", "D">>),
                            Lit(<<"B", "O", "O", "K", "I", "N", "G">>)>>),
              Spaces, Separator, Spaces, Identifier>>),
        Cat(<<Alt(<<Lit(<<"B", "I", "L", "L", " ", "O", "F", " ", "L", "A",
            "D", "I", "N", "G">>), Lit(<<"B", "/", "L">>)>>),
              Spaces, Separator, Spaces, Identifier>>),
        Group(Rep(Digit, 6, 20)) >>,
     shipper |-> <<
        Cat(<<Alt(<<Lit(<<"S", "H", "I", "P", "P", "E", "R">>), Lit(<<"F",
            "R", "O", "M">>), Lit(<<"S", "E", "N", "D", "E", "R">>)>>),
              Spaces, ColonOrNewline, Spaces, Name, LineEndOrPhone>>),
        Cat(<<Lit(<<"S", "h", "i", "p", "p", "e", "r">>), Spaces,
            Opt(Chars({":", "-"})), Spaces, Name, LineEnd>>),
        Cat(<<Lit(<<"F", "r", "o", "m", ":">>), Spaces, Name, LineEnd>>) >>,
     consignee |-> <<
        Cat(<<Alt(<<Lit(<<"C", "O", "N", "S", "I", "G", "N", "E", "E">>),
            Lit(<<"T", "O">>), Lit(<<"R", "E", "C", "E", "I", "V", "E",
                "R">>), Lit(<<"D", "E", "L", "I", "V", "E", "R", " ", "T",
                    "O">>)>>),
              Spaces, ColonOrNewline, Spaces, Name, LineEndOrPhone>>),
        Cat(<<Lit(<<"C", "o", "n", "s", "i", "g", "n", "e", "e">>), Spaces,
            Opt(Chars({":", "-"})), Spaces, Name, LineEnd>>),
        Cat(<<Lit(<<"T", "o", ":">>), Spaces, Name, LineEnd>>) >>,
     pickup_datetime |-> <<
        Cat(<<PickupWord, Spaces, DateWord, Spaces, ColonOrNewline, Spaces,
              Group(Cat(<<DateOnly, Spaces, TimeOfDay, Spaces, AmPm>>))>>),
        Cat(<<PickupWord, Spaces, DateWord, Spaces, ColonOrNewline, Spaces,
              Group(DateOnly)>>),
        Group(Cat(<<DateOnly, Plus(Chars(SpaceSet)), TimeOfDay, Spaces,
            AmPm>>)) >>,
     delivery_datetime |-> <<
        Cat(<<DeliveryWord, Spaces, DateWord, Spaces, ColonOrNewline, Spaces,
              Group(Cat(<<DateOnly, Spaces, TimeOfDay, Spaces, AmPm>>))>>),
        Cat(<<DeliveryWord, Spaces, DateWord, Spaces, ColonOrNewline, Spaces,
              Group(DateOnly)>>) >>,
     equipment_type |-> <<
        Cat(<<Alt(<<Cat(<<Lit(<<"E", "Q", "U", "I", "P">>), Opt(Lit(<<"M",
            "E", "N", "T">>))>>), Lit(<<"T", "R", "A", "I", "L", "E", "R">>),
                Lit(<<"C", "O", "N", "T", "A", "I", "N", "E", "R">>)>>),
              Spaces, ColonOrNewline, Spaces,
              Group(Lazy(Chars(EquipmentSet), 1, Unbounded)), LineEnd>>),
        Alt(<<Cat(<<Lit(<<"5", "3">>), Quote, Spaces, Feet, Spaces,
                    Alt(<<Lit(<<"V", "A", "N">>), Lit(<<"R", "E", "E", "F",
                        "E", "R">>), Lit(<<"D", "R", "Y">>)>>)>>),
              Cat(<<Lit(<<"4", "0">>), Quote, Spaces, Feet, Spaces,
                    Alt(<<Lit(<<"C", "O", "N", "T", "A", "I", "N", "E",
                        "R">>), Lit(<<"H", "C">>)>>)>>),
              Lit(<<"R", "E", "E", "F", "E", "R">>), Lit(<<"V", "A", "N">>),
                  Lit(<<"F", "L", "A", "T", "B", "E", "D">>)>>) >>,
     mode |-> <<
        Cat(<<Alt(<<Lit(<<"M", "O", "D", "E">>), Lit(<<"S", "E", "R", "V",
            "I", "C", "E">>)>>), Spaces, ColonOrNewline, Spaces,
              Group(Plus(Chars(LetterSet)))>>),
        Cat(<<WordBoundary,
              Group(Alt(<<Lit(<<"T", "L">>), Lit(<<"F", "T", "L">>),
                  Lit(<<"L", "T", "L">>), Lit(<<"T", "R", "U", "C", "K">>),
                      Lit(<<"R", "A", "I", "L">>), Lit(<<"O", "C", "E", "A",
                          "N">>),
                          Lit(<<"A", "I", "R">>), Lit(<<"G", "R", "O", "U",
                              "N", "D">>), Lit(<<"E", "X", "P", "E", "D",
                                  "I", "T", "E">>)>>)),
              WordBoundary>>) >>,
     rate |-> <<
        Cat(<<Alt(<<Lit(<<"R", "A", "T", "E">>), Lit(<<"C", "H", "A", "R",
            "G", "E">>), Lit(<<"A", "M", "O", "U", "N", "T">>), Lit(<<"T",
                "O", "T", "A", "L">>)>>), Spaces,
              Opt(Chars({":", "$"})), Spaces, Opt(Chars({"$"})), Spaces,
              Group(Money)>>),
        Cat(<<Chars({"$"}), Spaces, Group(Money)>>),
        Cat(<<Group(Cat(<<Plus(Digit), Chars({"."}), Rep(Digit, 2, 2)>>)),
              Spaces, Alt(<<Lit(<<"U", "S", "D">>), Lit(<<"C", "A",
                  "D">>)>>)>>) >>,
     currency |-> <<
        Cat(<<Lit(<<"C", "U", "R", "R", "E", "N", "C", "Y">>), Spaces,
            ColonOrNewline, Spaces,
              Group(Rep(Chars(LetterSet), 3, 3))>>),
        Cat(<<WordBoundary,
              Group(Alt(<<Lit(<<"U", "S", "D">>), Lit(<<"C", "A", "D">>),
                  Lit(<<"E", "U", "R">>), Lit(<<"G", "B", "P">>), Lit(<<"M",
                      "X", "N">>)>>)),
              WordBoundary>>) >>,
     weight |-> <<
        Cat(<<Alt(<<Lit(<<"W", "E", "I", "G", "H", "T">>), Lit(<<"W", "T">>),
            Lit(<<"G", "R", "O", "S", "S">>), Lit(<<"N", "E", "T">>)>>),
                Spaces,
              ColonOrNewline, Spaces, Group(Pounds), Spaces, WeightUnit>>),
        Cat(<<Group(Pounds), Spaces, WeightUnit>>) >>,
     carrier_name |-> <<
        Cat(<<Alt(<<Lit(<<"C", "A", "R", "R", "I", "E", "R">>), Lit(<<"C",
            "A", "R", "R", "I", "E", "R", " ", "N", "A", "M", "E">>),
                Lit(<<"T", "R", "U", "C", "K", "I", "N", "G", " ", "C",
                    "O">>), Lit(<<"T", "R", "A", "N", "S", "P", "O", "R",
                        "T">>)>>),
              Spaces, ColonOrNewline, Spaces, Name, LineEndOrPhone>>),
        Cat(<<Lit(<<"C", "a", "r", "r", "i", "e", "r", ":">>), Spaces, Name,
            LineEnd>>) >>]


\* A variant of the loop over a field's patterns without the break: the last
\* pattern that re.search finds in the text
RECURSIVE LastMatch(_, _, _)
LastMatch(pattern_list, text, k) ==
    IF k > Len(pattern_list) THEN [pattern |-> 0]
    ELSE Bind(LastMatch(pattern_list, text, k + 1), LAMBDA later :
            IF later.pattern # 0 THEN later
            ELSE Bind(Search(pattern_list[k], text), LAMBDA match :
                    IF match.found THEN [pattern |-> k, match |-> match]
                    ELSE [pattern |-> 0]))

\* The first pattern of the list, from the k-th on, that re.search finds in
\* the text: its number and its match, or number 0
RECURSIVE FirstMatch(_, _, _)
FirstMatch(pattern_list, text, k) ==
    IF k > Len(pattern_list) THEN [pattern |-> 0]
    ELSE Bind(Search(pattern_list[k], text), LAMBDA match :
            IF match.found THEN [pattern |-> k, match |-> match]
            ELSE FirstMatch(pattern_list, text, k + 1))

\* value.strip(chars)
RECURSIVE StripChars(_, _)
StripChars(s, chars) ==
    IF s # <<>> /\ s[1] \in chars THEN StripChars(Tail(s), chars)
    ELSE IF s # <<>> /\ s[Len(s)] \in chars
    THEN StripChars(SubSeq(s, 1, Len(s) - 1), chars)
    ELSE s

\* The value extract_with_regex stores for a field from a match
MatchedValue(field, text, match) ==
    LET raw == IF match.cap # NoCapture
               THEN SubSeq(text, match.cap[1], match.cap[2])
               ELSE SubSeq(text, match.from, match.to)
    IN Bind(StripChars(CollapseSpaces(Strip(raw)),
                       {":", ",", ";", "-", "\n", "\r", "\t", " "}),
            LAMBDA value :
               IF field \in FloatFields
               THEN Bind(DigitsAndDots(value), LAMBDA clean_value :
                       IF clean_value = <<>> THEN JStr(value)
                       ELSE IF FloatParses(clean_value)
                       THEN JNum(FloatOf(clean_value))
                       ELSE JNull)
               ELSE JStr(value))

\* The loop of extract_with_regex over the fields: for each field the number
\* of the pattern that matched (0: none) and the value stored
RegexCascade(text) ==
    [field \in required_fields |->
        Bind(FirstMatch(patterns[field], text, 1), LAMBDA first :
           IF first.pattern = 0 THEN [pattern |-> 0, value |-> JNull]
           ELSE [pattern |-> first.pattern,
                 value |-> MatchedValue(field, text, first.match)])]

\* json.loads returns a dict: the fields it holds
EmptyData == [f \in {} |-> JNull]

\* A variant of the test for extracted data: any field at all
AnyKey(data) == DOMAIN data # {}

\* any(v is not None for v in data.values())
AnyValue(data) == \E f \in DOMAIN data : data[f] # JNull

\* extract_with_llm(text): the completion call fails, answers text without
\* a JSON object, with one that does not parse, or with the object 'data'
ExtractWithLLM(text, llm) ==
    IF llm.kind = "raise" THEN EmptyData
    ELSE IF llm.json # "object" THEN EmptyData
    ELSE LET cleaned_data == CleanExtractedData(llm.data) IN
         IF AnyValue(cleaned_data) THEN cleaned_data ELSE EmptyData

\* The texts of the uploads that are ingested whole: process_document cleans
\* and chunks them with the defaults of chunk_text
ScenarioText ==
    <<"B", "O", "L", "#", ":", " ", "1", "2", "3", "4", "5", "6", "7",
      "8", "9", "\n", "S", "h", "i", "p", "p", "e", "r", ":", " ", "A",
      "B", "C", " ", "C", "o", "r", "p", "\n", "R", "a", "t", "e", ":",
      " ", "$", "2", ",", "5", "0", "0", ".", "0", "0">>
ZeroRateText ==
    <<"R", "a", "t", "e", ":", " ", "$", "0", ".", "0", "0">>
ModeWeightText ==
    <<"M", "o", "d", "e", ":", " ", "L", "T", "L", "\n", "W", "e", "i",
      "g", "h", "t", ":", " ", "1", "2", " ", "k", "g">>
RawTexts == {ScenarioText, ZeroRateText, ModeWeightText}

\* chunk_text(clean_text(raw_text))
IngestedChunks(raw_text) ==
    ChunkText(CleanText(raw_text), ChunkSizeDefault, OverlapDefault)

\* "\n".join(doc['chunks'])
FullText(chunks) == Join(chunks, <<"\n">>)

\* The texts extract_with_regex is called on directly
RegexTexts ==
    {ScenarioText, FullText(IngestedChunks(ScenarioText)), ZeroRateText}

\* A variant of the initial data of extract_with_regex: one dict shared by
\* the calls, which keeps the fields that earlier calls found
LeftoverData ==
    [f \in required_fields |->
        IF \E t \in DOMAIN regex_calls : regex_calls[t].result[f] # JNull
        THEN regex_calls[CHOOSE t \in DOMAIN regex_calls :
                            regex_calls[t].result[f] # JNull].result[f]
        ELSE JNull]

\* data = self.get_empty_result()
FreshData == EmptyResult

\* The loop of extract_with_regex on the texts of the model, evaluated once
RegexCascades ==
    [text \in {FullText(chunks) : chunks \in ChunkSeqs}
            \cup {FullText(IngestedChunks(raw_text)) : raw_text \in RawTexts}
            \cup RegexTexts |->
        RegexCascade(text)]

RegexCascadeOf(text) ==
    IF text \in DOMAIN RegexCascades THEN RegexCascades[text]
    ELSE RegexCascade(text)

\* extract_with_regex(text)
ExtractWithRegex(text) ==
    Bind(RegexCascadeOf(text), LAMBDA found :
       Bind([field \in required_fields |->
                IF found[field].pattern = 0 THEN FreshData[field]
                ELSE found[field].value],
            LAMBDA data : CleanExtractedData(data)))

\* A variant of extract_fields without the test of the loaded document: a
\* missing document is extracted from as an empty text
ExtractFieldsUnguarded(docs, file_id, api, llm) ==
    Bind(LoadDocument(docs, index_files, chunk_files, file_id), LAMBDA ld :
    Bind(IF ld.kind = "doc" THEN FullText(ld.doc.chunks) ELSE <<>>,
         LAMBDA full_text :
    Bind(IF api THEN ExtractWithLLM(full_text, llm) ELSE EmptyData,
         LAMBDA result :
    IF api /\ result # EmptyData /\ AnyValue(result)
    THEN [kind |-> "ok", result |-> result, path |-> "llm",
          documents |-> ld.documents, completion_calls |-> 1,
          regex_runs |-> 0]
    ELSE [kind |-> "ok", result |-> ExtractWithRegex(full_text),
          path |-> "regex", documents |-> ld.documents,
          completion_calls |-> IF api THEN 1 ELSE 0, regex_runs |-> 1])))

\* extract_fields(file_id)
ExtractFields(docs, file_id, api, llm) ==
    Bind(LoadDocument(docs, index_files, chunk_files, file_id), LAMBDA ld :
    IF ld.kind = "raise"
    THEN [kind |-> "raise", documents |-> ld.documents, completion_calls |-> 0,
          regex_runs |-> 0]
    ELSE IF ld.kind = "none"
    THEN [kind |-> "ok", result |-> EmptyResult, path |-> "missing",
          documents |-> ld.documents, completion_calls |-> 0,
          regex_runs |-> 0]
    ELSE
    Bind(FullText(ld.doc.chunks), LAMBDA full_text :
    Bind(IF api THEN ExtractWithLLM(full_text, llm) ELSE EmptyData,
         LAMBDA result :
    IF api /\ result # EmptyData /\ AnyValue(result)
    THEN [kind |-> "ok", result |-> result, path |-> "llm",
          documents |-> ld.documents, completion_calls |-> 1,
          regex_runs |-> 0]
    ELSE [kind |-> "ok", result |-> ExtractWithRegex(full_text),
          path |-> "regex", documents |-> ld.documents,
          completion_calls |-> IF api THEN 1 ELSE 0, regex_runs |-> 1])))

\* ExtractionResponse(**result): each field is null or of its declared type
Validates(result) ==
    \A f \in DOMAIN result :
        \/ result[f].t = "null"
        \/ f \in FloatFields /\ result[f].t = "num"
        \/ f \in FloatFields /\ result[f].t = "str" /\ FloatParses(result[f].v)
        \/ f \notin FloatFields /\ result[f].t = "str"

\* The completion call of an extract request
ExtractCompletions ==
    {[kind |-> "raise"],
     [kind |-> "text", json |-> "none"],
     [kind |-> "text", json |-> "invalid"]} \cup
    {[kind |-> "text", json |-> "object", data |-> d] : d \in
       { EmptyData,
         [f \in {"shipper", "rate", "currency"} |->
            IF f = "shipper"
            THEN JStr(<<"A", "C", "M", "E", " ", " ", "C", "o", "r", "p", ",">>)
            ELSE IF f = "rate"
            THEN JStr(<<"$", "2", ",", "5", "0", "0", ".", "0", "0">>)
            ELSE JStr(<<"i", "n", " ", "u", "s", "d">>)],
         [f \in {"weight", "currency"} |->
            IF f = "weight" THEN JStr(<<"1", ".", "2", ".", "3">>)
            ELSE JStr(<<"B", "7">>)],
         [f \in {"rate"} |-> JNum(Rat(5, 2))],
         [f \in {"rate"} |-> JList] }}

\* extract_data without its check of the loaded document
NotFoundSkipped(ld) == FALSE

\* "if not doc" in extract_data
DocumentNotFound(ld) == ld.kind = "none"

\* What extract_data does to the store, and its HTTP reply
ExtractData(docs, file_id, api, llm) ==
    Bind(LoadDocument(docs, index_files, chunk_files, file_id), LAMBDA ld :
    LET quiet == [documents |-> ld.documents, body |-> EmptyData,
                  path |-> "none", extractor_calls |-> 0,
                  completion_calls |-> 0, regex_runs |-> 0]
    IN
    IF ld.kind = "raise"
    THEN quiet @@ [existed |-> TRUE, status |-> 500]
    ELSE IF DocumentNotFound(ld)
    THEN quiet @@ [existed |-> FALSE, status |-> 404]
    ELSE
    Bind(ExtractFields(ld.documents, file_id, api, llm), LAMBDA e :
    LET called == [quiet EXCEPT !.documents = e.documents,
                                !.extractor_calls = 1,
                                !.completion_calls = e.completion_calls,
                                !.regex_runs = e.regex_runs]
    IN
    IF e.kind = "raise"
    THEN called @@ [existed |-> TRUE, status |-> 500]
    ELSE IF Validates(e.result)
    THEN [called EXCEPT !.body = e.result, !.path = e.path]
            @@ [existed |-> TRUE, status |-> 200]
    ELSE [called EXCEPT !.path = e.path]
            @@ [existed |-> TRUE, status |-> 500]))

\* POST /extract
Extract ==
    /\ last.op = "none"
    /\ \E file_id \in Ids, llm \in ExtractCompletions :
       \E x \in {ExtractData(documents, file_id, use_api, llm)} :
       /\ documents' = x.documents
       /\ last' = [op |-> "extract", file_id |-> file_id, existed |-> x.existed,
                   llm |-> llm.kind, status |-> x.status, body |-> x.body,
                   path |-> x.path, embed_calls |-> 0,
                   completion_calls |-> x.completion_calls,
                   extractor_calls |-> x.extractor_calls,
                   regex_runs |-> x.regex_runs]
       /\ results' = <<>>
       /\ response' = NoResponse
       /\ UNCHANGED <<index_files, chunk_files, created, stored, use_api,
                    regex_calls, running>>

Next == ProcessDocument \/ Load \/ Restart \/ Ask \/ Extract \/ Deliver

Spec == Init /\ [][Next]_vars

----------------------------------------------------------------------------
(* Direct calls of the extractor's functions on a store that holds one     *)
(* ingested document                                                       *)

\* The records given to clean_extracted_data: what the loop of
\* extract_with_regex stores for the texts, what the completions of
\* ExtractCompletions hold, and records with a zero, a negative number, a
\* list, an empty string and a number where a string is expected
CleanInputs ==
    {[field \in required_fields |-> RegexCascadeOf(text)[field].value] :
        text \in RegexTexts}
    \cup {llm.data : llm \in {c \in ExtractCompletions :
                                c.kind = "text" /\ c.json = "object"}}
    \cup {[f \in {"rate"} |-> v] :
            v \in {JNum(Zero), JNum(Rat(-5, 1)), JStr(<<"-", "5">>),
                   JStr(<<"0", ".", "0", "0">>), JStr(<<>>)}}
    \cup {[f \in {"weight"} |-> v] :
            v \in {JNum(Rat(-1, 2)), JStr(<<"0">>),
                   JStr(<<"1", "2", " ", "k", "g">>), JList}}
    \cup {[f \in {"currency"} |-> v] :
            v \in {JNum(Rat(5, 1)), JList, JStr(<<"u", "s">>),
                   JStr(<<"u", "s", " ", "d", "o", "l", "l", "a", "r", "s">>),
                   JStr(<<"$", "e", "u", "r", "o">>)}}

CallsInit ==
    /\ \E raw_text \in RawTexts, filename \in Filenames :
         LET chunks == IngestedChunks(raw_text)
             index == [i \in 1..Len(chunks) |-> EncodeText(chunks[i])]
         IN /\ documents =
                  Put(EmptyMap, 1, NewEntry(1, filename, chunks, index))
            /\ index_files =
                  [i \in Ids |-> IF i = 1 THEN IndexBlob(index) ELSE NoFile]
            /\ chunk_files =
                  [i \in Ids |-> IF i = 1 THEN ChunksBlob(chunks) ELSE NoFile]
            /\ stored = Put(EmptyMap, 1, chunks)
    /\ created = 1
    /\ use_api \in BOOLEAN
    /\ regex_calls = <<>>
    /\ running = <<>>
    /\ last = NoRequest
    /\ results = <<>>
    /\ response = NoResponse

\* The calls of extract_with_regex so far, another call having followed
OtherCall(calls, text) ==
    [t \in DOMAIN calls |->
        IF t = text THEN calls[t] ELSE [calls[t] EXCEPT !.others = TRUE]]

\* extractor.extract_fields(file_id), called directly
ExtractFieldsCall ==
    /\ last.op = "none"
    /\ \E file_id \in Ids, llm \in ExtractCompletions :
       \E ld \in {LoadDocument(documents, index_files, chunk_files, file_id)},
          e \in {ExtractFields(documents, file_id, use_api, llm)} :
       /\ documents' = e.documents
       /\ last' = [op |-> "extract_fields", file_id |-> file_id, llm |-> llm,
                   load |-> ld.kind, kind |-> e.kind,
                   result |-> IF e.kind = "ok" THEN e.result ELSE EmptyData,
                   path |-> IF e.kind = "ok" THEN e.path ELSE "none",
                   completion_calls |-> e.completion_calls,
                   regex_runs |-> e.regex_runs]
       /\ regex_calls' = OtherCall(regex_calls, <<>>)
       /\ UNCHANGED <<index_files, chunk_files, created, stored, use_api,
                    running, results, response>>

\* extractor.clean_extracted_data(data), called directly
CleanExtractedDataCall ==
    /\ last.op = "none"
    /\ \E data \in CleanInputs :
       last' = [op |-> "clean_extracted_data", data |-> data,
                cleaned |-> CleanExtractedData(data)]
    /\ regex_calls' = OtherCall(regex_calls, <<>>)
    /\ UNCHANGED <<documents, index_files, chunk_files, created, stored,
                   use_api, running, results, response>>

\* extractor.extract_with_regex(text), called directly
ExtractWithRegexCall ==
    /\ last.op = "none"
    /\ \E text \in RegexTexts :
       \E result \in {ExtractWithRegex(text)} :
       /\ last' = [op |-> "extract_with_regex", text |-> text,
                   cascade |-> RegexCascadeOf(text), result |-> result,
                   repeated |-> text \in DOMAIN regex_calls]
       /\ regex_calls' =
             IF text \in DOMAIN regex_calls THEN OtherCall(regex_calls, text)
             ELSE Put(OtherCall(regex_calls, text), text,
                      [result |-> result, others |-> FALSE])
    /\ UNCHANGED <<documents, index_files, chunk_files, created, stored,
                   use_api, running, results, response>>

CallsNext ==
    ExtractFieldsCall \/ CleanExtractedDataCall \/ ExtractWithRegexCall
        \/ Deliver

SpecCalls == CallsInit /\ [][CallsNext]_vars

----------------------------------------------------------------------------
(* Direct calls of chunk_text on normalized texts *)

\* The texts are made of at most MaxPieces pieces with a separator between
\* two pieces and, or not, a final period
MaxPieces == 3

Pieces == {<<"a">>, <<"b">>, <<"a", " ", "b">>}

Separators == {<<".", " ">>, <<".", "\n">>, <<"\n">>, <<" ">>}

RECURSIVE Interleave(_, _, _)
Interleave(pieces, seps, k) ==
    IF k = Len(pieces) THEN pieces[k]
    ELSE pieces[k] \o seps[k] \o Interleave(pieces, seps, k + 1)

\* The texts given to chunk_text: the empty text and what clean_text returns
\* for the texts made of pieces
ChunkInputs ==
    {<<>>} \cup
    UNION {{CleanText(Interleave(pieces, seps, 1) \o end) :
                pieces \in [1..n -> Pieces], seps \in [1..(n - 1) -> Separators],
                end \in {<<>>, <<".">>}} : n \in 1..MaxPieces}

\* The word budgets and overlaps of the calls (the defaults are 500 and 100)
ChunkSizes == 1..3
Overlaps == 0..1

ChunkInit ==
    /\ documents = EmptyMap
    /\ index_files = [i \in Ids |-> NoFile]
    /\ chunk_files = [i \in Ids |-> NoFile]
    /\ created = 0
    /\ stored = EmptyMap
    /\ use_api = FALSE
    /\ regex_calls = <<>>
    /\ running = <<>>
    /\ last = NoRequest
    /\ results = <<>>
    /\ response = NoResponse

\* doc_processor.chunk_text(text, chunk_size, overlap), called directly
ChunkTextCall ==
    /\ last.op = "none"
    /\ \E text \in ChunkInputs, chunk_size \in ChunkSizes, overlap \in Overlaps :
       \E chunks \in {ChunkText(text, chunk_size, overlap)} :
       last' = [op |-> "chunk_text", text |-> text, chunk_size |-> chunk_size,
                overlap |-> overlap, chunks |-> chunks,
                steps |-> IF text = <<>> THEN <<>>
                          ELSE ChunkSteps(Sentences(text), 1, chunk_size,
                                          overlap, <<>>, 0)]
    /\ UNCHANGED <<storeVars, results, response>>

ChunkNext == ChunkTextCall \/ Deliver

SpecChunk == ChunkInit /\ [][ChunkNext]_vars

----------------------------------------------------------------------------
(* Loads and retrievals on a store whose memory entry may lack its index *)

\* An entry of self.documents without the key 'index'
WithoutIndex(entry) == [k \in DOMAIN entry \ {"index"} |-> entry[k]]

\* One document was ingested. The memory entry has its index or lacks it
\* (the inconsistency load_document tests for), and the index blob is as
\* process_document wrote it, missing, or unreadable.
PatchInit ==
    /\ \E chunks \in Uploads, filename \in Filenames :
         \E index \in ChunkEmbeddings(chunks) :
         LET entry == NewEntry(1, filename, chunks, index) IN
            /\ documents \in {Put(EmptyMap, 1, entry),
                               Put(EmptyMap, 1, WithoutIndex(entry))}
            /\ index_files \in
                  {[i \in Ids |-> IF i = 1 THEN blob ELSE NoFile] :
                      blob \in {IndexBlob(index)} \cup FailedWrites}
            /\ chunk_files =
                  [i \in Ids |-> IF i = 1 THEN ChunksBlob(chunks) ELSE NoFile]
            /\ stored = Put(EmptyMap, 1, chunks)
    /\ created = 1
    /\ use_api = FALSE
    /\ regex_calls = <<>>
    /\ running = <<>>
    /\ last = NoRequest
    /\ results = <<>>
    /\ response = NoResponse

PatchNext == Load \/ Retrieve \/ Deliver

SpecPatch == PatchInit /\ [][PatchNext]_vars

----------------------------------------------------------------------------
(* process_document and load_document step by step, two calls at a time *)

\* The callers whose calls may interleave
Callers == {"a", "b"}

Idle == [op |-> "none"]

\* A variant of NewFileId that gives every call the same identifier
SameFileId(n) == 1

\* The identifier process_document generates: a fresh one at every call
NewFileId(n) == n + 1

\* A variant of ProcessOrder that stores the entry before it writes the blobs
StoreFirstOrder ==
    <<"store", "create_index", "write_index", "create_chunks", "write_chunks">>

\* The steps of process_document once the index is built: faiss.write_index
\* creates and fills the index blob, open() creates and pickle.dump fills
\* the chunk blob, and then the entry is stored in self.documents
ProcessOrder ==
    <<"create_index", "write_index", "create_chunks", "write_chunks", "store">>

\* A variant of PickleLoad that takes what a partial file holds
PickleLoadPartial(blob) ==
    [ok |-> blob.kind # "none",
     chunks |-> IF blob.kind = "ok" THEN blob.chunks ELSE <<>>]

\* pickle.load on the chunk blob: a missing or partial file raises
PickleLoad(blob) ==
    [ok |-> blob.kind = "ok",
     chunks |-> IF blob.kind = "ok" THEN blob.chunks ELSE <<>>]

\* A call of process_document that has raised at the named step
Raised(p, step) ==
    [k \in (DOMAIN p \ {"at"}) \cup {"step"} |->
        IF k = "step" THEN step ELSE IF k = "status" THEN "raise" ELSE p[k]]

\* A call of process_document after one more step
Advanced(p) ==
    IF p.at = Len(ProcessOrder)
    THEN [k \in (DOMAIN p \ {"at"}) \cup {"step"} |->
            IF k = "step" THEN "done" ELSE IF k = "status" THEN "ok" ELSE p[k]]
    ELSE [p EXCEPT !.at = @ + 1]

\* A call of load_document that has returned
Returned(l, kind, doc, disk_reads) ==
    [op |-> "load", pc |-> "done", file_id |-> l.file_id, held |-> l.held,
     kind |-> kind, doc |-> doc, disk_reads |-> disk_reads]

StepsInit ==
    /\ documents = EmptyMap
    /\ index_files = [i \in Ids |-> NoFile]
    /\ chunk_files = [i \in Ids |-> NoFile]
    /\ created = 0
    /\ stored = EmptyMap
    /\ use_api = FALSE
    /\ regex_calls = <<>>
    /\ running = [c \in Callers |-> Idle]
    /\ last = NoRequest
    /\ results = <<>>
    /\ response = NoResponse

\* process_document begins: the identifier is generated, the text is
\* extracted, cut and embedded, and the index is built
StartProcess ==
    \E c \in Callers, filename \in Filenames :
      /\ running[c] = Idle
      /\ created < MaxDocs
      /\ created' = created + 1
      /\ UNCHANGED <<documents, index_files, chunk_files, stored, use_api,
                     regex_calls, last, results, response>>
      /\ LET file_id == NewFileId(created)
             begun == [op |-> "process", status |-> "run", file_id |-> file_id,
                       overlapped |-> \E d \in Callers :
                                         /\ running[d].op = "process"
                                         /\ running[d].status = "run"]
         IN
         \/ running' = [running EXCEPT ![c] = Raised(begun, "text")]
         \/ \E chunks \in Uploads :
              \/ running' = [running EXCEPT ![c] = Raised(begun, "embed")]
              \/ \E embeddings \in ChunkEmbeddings(chunks) :
                   running' = [running EXCEPT ![c] =
                      [op |-> "process", status |-> "run", file_id |-> file_id,
                       overlapped |-> begun.overlapped, at |-> 1,
                       filename |-> filename, chunks |-> chunks,
                       index |-> embeddings]]

\* One step of a running process_document
ProcessStep ==
    \E c \in Callers :
      /\ running[c].op = "process"
      /\ running[c].status = "run"
      /\ LET p == running[c]
             file_id == p.file_id
             step == ProcessOrder[p.at]
         IN
         /\ UNCHANGED <<created, use_api, regex_calls, last, results, response>>
         /\ \/ /\ step = "create_index"
               /\ \/ /\ index_files' = [index_files EXCEPT ![file_id] = CorruptFile]
                     /\ running' = [running EXCEPT ![c] = Advanced(p)]
                  \/ /\ running' = [running EXCEPT ![c] = Raised(p, "write_index")]
                     /\ UNCHANGED index_files
               /\ UNCHANGED <<documents, chunk_files, stored>>
            \/ /\ step = "write_index"
               /\ \/ /\ index_files' = [index_files EXCEPT
                                          ![file_id] = IndexBlob(p.index)]
                     /\ running' = [running EXCEPT ![c] = Advanced(p)]
                  \/ /\ running' = [running EXCEPT ![c] = Raised(p, "write_index")]
                     /\ UNCHANGED index_files
               /\ UNCHANGED <<documents, chunk_files, stored>>
            \/ /\ step = "create_chunks"
               /\ \/ /\ chunk_files' = [chunk_files EXCEPT ![file_id] = CorruptFile]
                     /\ running' = [running EXCEPT ![c] = Advanced(p)]
                  \/ /\ running' = [running EXCEPT ![c] = Raised(p, "write_chunks")]
                     /\ UNCHANGED chunk_files
               /\ UNCHANGED <<documents, index_files, stored>>
            \/ /\ step = "write_chunks"
               /\ \/ /\ chunk_files' = [chunk_files EXCEPT
                                          ![file_id] = ChunksBlob(p.chunks)]
                     /\ running' = [running EXCEPT ![c] = Advanced(p)]
                  \/ /\ running' = [running EXCEPT ![c] = Raised(p, "write_chunks")]
                     /\ UNCHANGED chunk_files
               /\ UNCHANGED <<documents, index_files, stored>>
            \/ /\ step = "store"
               /\ documents' = Put(documents, file_id,
                                   NewEntry(file_id, p.filename, p.chunks, p.index))
               /\ stored' = Put(stored, file_id, p.chunks)
               /\ running' = [running EXCEPT ![c] = Advanced(p)]
               /\ UNCHANGED <<index_files, chunk_files>>

\* load_document(file_id) begins
StartLoad ==
    \E c \in Callers, file_id \in Ids :
      /\ running[c] = Idle
      /\ running' = [running EXCEPT ![c] =
            [op |-> "load", pc |-> "memory", file_id |-> file_id,
             held |-> file_id \in DOMAIN stored]]
      /\ UNCHANGED <<documents, index_files, chunk_files, created, stored,
                     use_api, regex_calls, last, results, response>>

\* One step of a running load_document
LoadStep ==
    \E c \in Callers :
      /\ running[c].op = "load"
      /\ running[c].pc # "done"
      /\ LET l == running[c]
             file_id == l.file_id
             at(pc) == [op |-> "load", pc |-> pc, file_id |-> file_id,
                        held |-> l.held]
         IN
         /\ UNCHANGED <<index_files, chunk_files, created, stored, use_api,
                        regex_calls, last, results, response>>
         /\ \/ /\ l.pc = "memory"
               /\ file_id \in DOMAIN documents
               /\ \E ld \in {LoadFromMemory(documents, index_files, file_id)} :
                    /\ documents' = ld.documents
                    /\ running' = [running EXCEPT ![c] =
                          Returned(l, ld.kind, ld.doc, ld.disk_reads)]
            \/ /\ l.pc = "memory"
               /\ file_id \notin DOMAIN documents
               /\ running' = [running EXCEPT ![c] = at("exists_index")]
               /\ UNCHANGED documents
            \/ /\ l.pc = "exists_index"
               /\ running' = [running EXCEPT ![c] =
                     IF Exists(index_files[file_id])
                     THEN at("exists_chunks")
                     ELSE Returned(l, "none", NoDoc, 0)]
               /\ UNCHANGED documents
            \/ /\ l.pc = "exists_chunks"
               /\ running' = [running EXCEPT ![c] =
                     IF Exists(chunk_files[file_id])
                     THEN at("read_index")
                     ELSE Returned(l, "none", NoDoc, 0)]
               /\ UNCHANGED documents
            \/ /\ l.pc = "read_index"
               /\ running' = [running EXCEPT ![c] =
                     IF index_files[file_id].kind = "ok"
                     THEN [op |-> "load", pc |-> "read_chunks",
                           file_id |-> file_id, held |-> l.held,
                           index |-> index_files[file_id].xb]
                     ELSE Returned(l, "none", NoDoc, 1)]
               /\ UNCHANGED documents
            \/ /\ l.pc = "read_chunks"
               /\ \E read \in {PickleLoad(chunk_files[file_id])} :
                    running' = [running EXCEPT ![c] =
                       IF read.ok
                       THEN [op |-> "load", pc |-> "store",
                             file_id |-> file_id, held |-> l.held,
                             index |-> l.index, chunks |-> read.chunks]
                       ELSE Returned(l, "none", NoDoc, 2)]
               /\ UNCHANGED documents
            \/ /\ l.pc = "store"
               /\ documents' = Put(documents, file_id,
                                   LoadedEntry(file_id, l.index, l.chunks))
               /\ running' = [running EXCEPT ![c] = at("return")]
            \/ /\ l.pc = "return"
               /\ running' = [running EXCEPT ![c] =
                     Returned(l, "doc", documents[file_id], 2)]
               /\ UNCHANGED documents

\* A caller takes the outcome of its call
Collect ==
    \E c \in Callers :
      /\ \/ running[c].op = "process" /\ running[c].status # "run"
         \/ running[c].op = "load" /\ running[c].pc = "done"
      /\ running' = [running EXCEPT ![c] = Idle]
      /\ UNCHANGED <<documents, index_files, chunk_files, created, stored,
                     use_api, regex_calls, last, results, response>>

\* The process restarts: the in-memory map and the running calls are lost,
\* the disk is kept as the calls left it
StepsRestart ==
    /\ documents # EmptyMap
    /\ documents' = EmptyMap
    /\ running' = [c \in Callers |-> Idle]
    /\ UNCHANGED <<index_files, chunk_files, created, stored, use_api,
                   regex_calls, last, results, response>>

StepsNext ==
    StartProcess \/ ProcessStep \/ StartLoad \/ LoadStep \/ Collect
    \/ StepsRestart

SpecSteps == StepsInit /\ [][StepsNext]_vars

----------------------------------------------------------------------------
(* Properties of the store and the request handlers (Spec) *)

CompleteOnDisk(file_id) ==
    index_files[file_id].kind = "ok" /\ chunk_files[file_id].kind = "ok"

\* C1: an ask or an extract request on an identifier whose document exists
\* returns a normal result, whatever the completion or the embedding does:
\* it never reports an error to its caller.
C1_ExistingDocumentNeverErrors ==
    (last.op \in {"ask", "extract"} /\ last.existed /\ last.status # 400)
        => last.status = 200

\* C2: a load of an identifier held on disk only (both blobs) returns the
\* chunks and the chunk count process_document stored and keeps the entry in
\* memory; a load of an identifier held in memory returns the memory entry and
\* reads nothing from disk.
C2_LoadRehydratesThenCaches ==
    [][ (last'.op = "load") =>
          LET file_id == last'.file_id IN
          /\ (file_id \notin DOMAIN documents /\ CompleteOnDisk(file_id)) =>
                /\ last'.kind = "doc"
                /\ last'.doc.chunks = stored[file_id]
                /\ last'.doc.num_chunks = Len(stored[file_id])
                /\ file_id \in DOMAIN documents'
                /\ documents'[file_id] = last'.doc
          /\ (file_id \in DOMAIN documents) =>
                /\ last'.kind = "doc"
                /\ last'.disk_reads = 0
                /\ last'.doc = documents[file_id]
                /\ last'.doc.chunks = stored[file_id]
                /\ documents' = documents ]_vars

\* a load served from memory, of an entry an earlier load read from disk
C2_Witness ==
    /\ last.op = "load"
    /\ last.kind = "doc"
    /\ last.disk_reads = 0
    /\ "filename" \notin DOMAIN last.doc
    /\ Len(last.doc.chunks) = MaxChunks

\* C3: a load of an identifier that neither memory nor the disk holds
\* completely (a blob is missing or cannot be read) returns not-found, does
\* not raise, and leaves the in-memory map as it was.
C3_IncompleteLoadsNotFound ==
    [][ (/\ last'.op = "load"
         /\ last'.file_id \notin DOMAIN documents
         /\ ~CompleteOnDisk(last'.file_id))
        => (last'.kind = "none" /\ documents' = documents) ]_vars

\* a load answered not-found although the index blob of the identifier is good
C3_Witness ==
    /\ last.op = "load"
    /\ last.kind = "none"
    /\ index_files[last.file_id].kind = "ok"
    /\ chunk_files[last.file_id] = CorruptFile
    /\ documents # EmptyMap

\* C4: every entry of the in-memory map has as many chunks as its num_chunks
\* says and as its index has vectors.
C4_ChunkCountsAgree ==
    \A file_id \in DOMAIN documents :
        LET doc == documents[file_id] IN
        /\ {"chunks", "num_chunks", "index"} \subseteq DOMAIN doc
        /\ Len(doc.chunks) = doc.num_chunks
        /\ doc.num_chunks = Len(doc.index)

\* the map holds an entry made by process_document and one read from disk
C4_Witness ==
    /\ \E file_id \in DOMAIN documents : "filename" \in DOMAIN documents[file_id]
    /\ \E file_id \in DOMAIN documents :
          /\ "filename" \notin DOMAIN documents[file_id]
          /\ documents[file_id].num_chunks = MaxChunks

\* Neither memory nor a readable pair of blobs on disk holds the identifier
Unheld(file_id) ==
    file_id \notin DOMAIN documents /\ ~CompleteOnDisk(file_id)

\* the request that ends in last'
Requested == last'.op \in {"ask", "extract"} /\ Unheld(last'.file_id)

\* What the claim says of a request on an identifier that is not held
RefusedQuietly ==
    /\ last'.status = 404
    /\ last'.embed_calls = 0
    /\ last'.completion_calls = 0
    /\ last'.extractor_calls = 0
    /\ documents' = documents

FailedAttempt(file_id) == file_id \in 1..created /\ file_id \notin DOMAIN stored

\* C22: a process_document that fails (no text, or any later step before the
\* entry is stored in memory) raises and leaves the in-memory map as it was,
\* and a later load_document of the identifier generated for that attempt
\* returns not-found and adds nothing to the map.
C22_FailedIngestionLeavesNothing ==
    [][ /\ (last'.op = "process" /\ last'.status = "raise") =>
              /\ documents' = documents
              /\ last'.file_id \in 1..created'
              /\ last'.file_id \notin DOMAIN stored'
        /\ (last'.op = "load" /\ FailedAttempt(last'.file_id)) =>
              /\ last'.kind = "none"
              /\ documents' = documents ]_vars

\* a load answered not-found for the identifier of an attempt that wrote its
\* index blob and failed on its chunk blob, after another document was stored
C22_Witness ==
    /\ last.op = "load"
    /\ last.kind = "none"
    /\ FailedAttempt(last.file_id)
    /\ index_files[last.file_id].kind = "ok"
    /\ chunk_files[last.file_id] \in FailedWrites
    /\ stored # EmptyMap

\* C25: an identifier that is in the in-memory map stays in it, with the same
\* entry (hence the same chunk sequence), through every ingest, load, ask
\* (with its retrieval) and extract; an ingest puts its entry under an
\* identifier that was not in the map. Only a restart empties the map.
C25_EntriesAreNeverEvicted ==
    [][ (last'.op # "restart") =>
          /\ \A file_id \in DOMAIN documents :
                /\ file_id \in DOMAIN documents'
                /\ documents'[file_id] = documents[file_id]
                /\ documents'[file_id].chunks = stored[file_id]
          /\ (last'.op = "process" /\ last'.status = "ok") =>
                /\ last'.file_id \notin DOMAIN documents
                /\ last'.file_id \in DOMAIN documents' ]_vars

\* an ask request was answered from the second document ingested under the
\* same filename, and the map holds the entries of both ingestions
C25_Witness ==
    /\ last.op = "ask"
    /\ last.status = 200
    /\ last.file_id = MaxDocs
    /\ DOMAIN documents = Ids
    /\ \A file_id \in Ids :
          /\ "filename" \in DOMAIN documents[file_id]
          /\ documents[file_id].chunks = stored[file_id]

\* C29: every document load_document returns carries the filename given at
\* ingestion, whether the in-memory map or the disk served it, and has the
\* fields of the entry process_document stored.
C29_LoadedDocumentHasFilename ==
    (last.op = "load" /\ last.kind = "doc") =>
        /\ "filename" \in DOMAIN last.doc
        /\ last.doc.filename \in Filenames
        /\ \A filename \in Filenames :
              DOMAIN last.doc =
                 DOMAIN NewEntry(last.file_id, filename, last.doc.chunks,
                                 last.doc.index)

(* Properties of the extractor's functions (SpecCalls) *)

\* C12: extract_fields on an identifier that load_document does not find
\* returns the record whose 11 fields are all null, does not raise, and calls
\* neither the completion nor the regex cascade.
C12_MissingDocumentGivesEmptyRecord ==
    (last.op = "extract_fields" /\ last.load = "none") =>
        /\ last.kind = "ok"
        /\ DOMAIN last.result = required_fields
        /\ Cardinality(DOMAIN last.result) = 11
        /\ \A f \in DOMAIN last.result : last.result[f] = JNull
        /\ last.completion_calls = 0
        /\ last.regex_runs = 0

\* extract_fields was called on an identifier without a document while the
\* completion is configured and would have answered with data
C12_Witness ==
    /\ last.op = "extract_fields"
    /\ last.load = "none"
    /\ last.file_id \notin DOMAIN documents
    /\ use_api
    /\ last.llm.kind = "text"
    /\ last.llm.json = "object"
    /\ last.kind = "ok"


\* C14: every record extract_fields returns, on each of its paths (document
\* missing, model-based success, regex fallback), has exactly the 11 named
\* fields, a field without a value being present and null.
C14_RecordHasAllFields ==
    (last.op = "extract_fields" /\ last.kind = "ok") =>
        /\ last.path \in {"missing", "llm", "regex"}
        /\ DOMAIN last.result = required_fields
        /\ Cardinality(DOMAIN last.result) = 11
        /\ \A f \in required_fields :
              last.result[f] = JNull \/ last.result[f].t \in {"str", "num", "list"}

\* the model-based path has returned a record for a completion that named
\* three fields only: the eight others are there and null
C14_Witness ==
    /\ last.op = "extract_fields"
    /\ last.path = "llm"
    /\ DOMAIN last.llm.data = {"shipper", "rate", "currency"}
    /\ \A f \in required_fields \ DOMAIN last.llm.data : last.result[f] = JNull
    /\ \A f \in DOMAIN last.llm.data : last.result[f] # JNull

IsPositiveFloat(x) == x.t = "num" /\ RLess(Zero, x.num)

IsCurrencyCode(x) ==
    x.t = "str" /\ Len(x.v) = 3 /\ \A i \in 1..Len(x.v) : x.v[i] \in LetterSet

\* C15: for every record given to clean_extracted_data, the cleaned rate and
\* the cleaned weight are each null or a positive float, and the cleaned
\* currency is null or a 3-letter code.
C15_CleanedValuesAreValid ==
    (last.op = "clean_extracted_data") =>
        /\ \A f \in FloatFields :
              last.cleaned[f] = JNull \/ IsPositiveFloat(last.cleaned[f])
        /\ last.cleaned["currency"] = JNull
              \/ IsCurrencyCode(last.cleaned["currency"])

\* the record the model-based path would return for the completion of last
ModelRecord == CleanExtractedData(last.llm.data)

\* the completion of last is usable: the call succeeded, a JSON object was
\* recovered and parsed, and a field of the cleaned record is not null
ModelSucceeds ==
    /\ last.llm.kind = "text"
    /\ last.llm.json = "object"
    /\ \E f \in required_fields : ModelRecord[f] # JNull

\* C16: on a document that is found, extract_fields calls the completion if
\* and only if it is configured; it returns the model-based record exactly
\* when it is configured, the call succeeded, a JSON object was recovered
\* and parsed and a field is not null, and then the regex cascade does not
\* run; in every other case it returns what the regex cascade gives on the
\* full text.
C16_ModelFirstThenRegex ==
    (last.op = "extract_fields" /\ last.load = "doc") =>
        /\ last.kind = "ok"
        /\ last.completion_calls = (IF use_api THEN 1 ELSE 0)
        /\ (last.path = "llm") <=> (use_api /\ ModelSucceeds)
        /\ (last.path = "regex") <=> ~(use_api /\ ModelSucceeds)
        /\ (last.path = "llm") =>
              last.result = ModelRecord /\ last.regex_runs = 0
        /\ (last.path = "regex") =>
              /\ last.result =
                    ExtractWithRegex(FullText(stored[last.file_id]))
              /\ last.regex_runs = 1

\* the completion is configured and answers with a JSON object whose fields
\* are all null once cleaned, and the regex cascade has given the record
C16_Witness ==
    /\ last.op = "extract_fields"
    /\ use_api
    /\ last.llm.kind = "text"
    /\ last.llm.json = "object"
    /\ last.llm.data # EmptyData
    /\ last.path = "regex"
    /\ last.completion_calls = 1
    /\ last.regex_runs = 1
    /\ \E f \in required_fields : last.result[f] # JNull

\* For the texts of the direct calls: the numbers of the patterns of each field
\* that re.search finds in the text, each pattern searched on its own
PatternHits ==
    [text \in RegexTexts |->
        [field \in required_fields |->
            {k \in 1..Len(patterns[field]) :
                Search(patterns[field][k], text).found}]]

FirstHit(hits) == CHOOSE k \in hits : \A j \in hits : k <= j

\* C17: in the regex cascade each field takes its value from the first
\* pattern of its list that matches the text, whatever later patterns match,
\* and a field none of whose patterns matches is null.
C17_FirstMatchingPatternWins ==
    (last.op = "extract_with_regex") =>
        \A field \in required_fields :
            LET hits == PatternHits[last.text][field] IN
            IF hits = {}
            THEN /\ last.cascade[field].pattern = 0
                 /\ last.result[field] = JNull
            ELSE /\ last.cascade[field].pattern = FirstHit(hits)
                 /\ last.cascade[field].value =
                       MatchedValue(field, last.text,
                           Search(patterns[field][FirstHit(hits)], last.text))
                 /\ last.result[field] =
                       CleanExtractedData(
                           [f \in {field} |-> last.cascade[field].value])[field]

\* the cascade ran on a text in which two patterns of one field match, the
\* first matching pattern of another field is not the first of its list, and
\* a third field has no matching pattern
C17_Witness ==
    /\ last.op = "extract_with_regex"
    /\ \E field \in required_fields :
          Cardinality(PatternHits[last.text][field]) >= 2
    /\ \E field \in required_fields :
          /\ PatternHits[last.text][field] # {}
          /\ 1 \notin PatternHits[last.text][field]
          /\ last.result[field] # JNull
    /\ \E field \in required_fields : PatternHits[last.text][field] = {}

C19_ScenarioFields ==
    (/\ last.op = "extract_fields"
     /\ ~use_api
     /\ last.load = "doc"
     /\ stored[last.file_id] = IngestedChunks(ScenarioText))
    => /\ last.path = "regex"
       /\ last.result["shipment_id"] =
             JStr(<<"1", "2", "3", "4", "5", "6", "7", "8", "9">>)
       /\ last.result["shipper"] =
             JStr(<<"A", "B", "C", " ", "C", "o", "r", "p">>)
       /\ last.result["rate"] = JNum(Rat(2500, 1))
       /\ last.result["currency"] = JNull

----------------------------------------------------------------------------
(* Properties of chunk_text (SpecChunk) *)

\* The sentence units of a text: its parts between the delimiters ". ",
\* without the white space around them
UnitsOf(text) ==
    LET parts == SplitSep(text, <<".", " ">>)
    IN [k \in 1..Len(parts) |-> Strip(parts[k])]

\* Each unit is inside a chunk, whole, and the chunks that hold the units
\* follow the order of the units
HeldInOrder(units, chunks) ==
    \E at \in [1..Len(units) -> 1..Len(chunks)] :
        /\ \A k \in 1..Len(units) : Contains(chunks[at[k]], units[k])
        /\ \A j, k \in 1..Len(units) : j < k => at[j] <= at[k]

\* chunk_text gives no chunk for the empty text and, for another text, at
\* least one chunk, none empty, the chunks holding the given units in order
ChunksKeep(units) ==
    IF last.text = <<>> THEN last.chunks = <<>>
    ELSE /\ last.chunks # <<>>
         /\ \A i \in 1..Len(last.chunks) : last.chunks[i] # <<>>
         /\ HeldInOrder(units, last.chunks)

C21_ShortTextIsOneChunk ==
    (/\ last.op = "chunk_text"
     /\ last.text # <<>>
     /\ Len(Split(last.text)) < last.chunk_size)
    => last.chunks = <<last.text>>

\* the last n words of a word list, all of them when it has at most n
LastWords(words, n) ==
    IF Len(words) <= n THEN words
    ELSE SubSeq(words, Len(words) - n + 1, Len(words))

\* the chunks closed in the iterations, in order
RECURSIVE ClosedChunks(_, _)
ClosedChunks(steps, k) ==
    IF k > Len(steps) THEN <<>>
    ELSE steps[k].closed \o ClosedChunks(steps, k + 1)

\* C28: in each iteration of chunk_text the sentence unit is appended to the
\* running chunk exactly when the word count of the result stays at or below
\* chunk_size; otherwise the running chunk is closed and the next chunk is
\* the last `overlap` words of the closed chunk (all of them when it has at
\* most `overlap`) followed by the unit; and the tracked word count equals
\* the word count of the running chunk.
C28_GreedyPackingWithOverlap ==
    (last.op = "chunk_text") =>
        /\ \A k \in 1..Len(last.steps) :
              LET step == last.steps[k] IN
              /\ step.appended <=>
                    Len(Split(step.chunk_before \o step.sentence))
                        <= last.chunk_size
              /\ step.appended =>
                    /\ step.current_chunk = step.chunk_before \o step.sentence
                    /\ step.closed = <<>>
              /\ ~step.appended =>
                    /\ step.chunk_before # <<>> =>
                          step.closed = <<Strip(step.chunk_before)>>
                    /\ Split(step.current_chunk) =
                          LastWords(Split(step.chunk_before), last.overlap)
                              \o Split(step.sentence)
              /\ step.current_size = Len(Split(step.current_chunk))
        /\ last.steps # <<>> =>
              last.chunks =
                 ClosedChunks(last.steps, 1)
                    \o <<Strip(last.steps[Len(last.steps)].current_chunk)>>

----------------------------------------------------------------------------
(* Properties of load_document on an entry without its index (SpecPatch) *)

----------------------------------------------------------------------------
(* Properties of the interleaved calls (SpecSteps) *)

\* C26: in every state, the states between the steps of process_document
\* included, every identifier in self.documents has its index blob and its
\* chunk blob written in full on disk, and the chunk blob holds the chunk
\* sequence of the memory entry.
C26_MemoryEntriesAreDurable ==
    \A file_id \in DOMAIN documents :
        /\ index_files[file_id].kind = "ok"
        /\ chunk_files[file_id].kind = "ok"
        /\ chunk_files[file_id].chunks = documents[file_id].chunks

\* An entry is in memory while another process_document has written its
\* index blob and only a part of its chunk blob
C26_Witness ==
    /\ documents # EmptyMap
    /\ \E c \in Callers :
         /\ running[c].op = "process"
         /\ running[c].status = "run"
         /\ running[c].file_id \notin DOMAIN documents
         /\ index_files[running[c].file_id].kind = "ok"
         /\ chunk_files[running[c].file_id].kind = "corrupt"

\* C23: a load_document that begins when process_document has stored the
\* identifier returns, whatever another load_document of the same identifier
\* does meanwhile, a document with the stored chunks and their count, and
\* self.documents holds one entry for the identifier, with those chunks and
\* that count; when the call has read the disk, the entry equals the document
\* it returned, so two calls that both read the disk return equal documents.
C23_ConcurrentLoadsAgree ==
    \A c \in Callers :
        (/\ running[c].op = "load"
         /\ running[c].pc = "done"
         /\ running[c].held)
        => /\ running[c].kind = "doc"
           /\ "num_chunks" \in DOMAIN running[c].doc
           /\ running[c].doc.chunks = stored[running[c].file_id]
           /\ running[c].doc.num_chunks = Len(stored[running[c].file_id])
           /\ running[c].file_id \in DOMAIN documents
           /\ documents[running[c].file_id].chunks = running[c].doc.chunks
           /\ documents[running[c].file_id].num_chunks = running[c].doc.num_chunks
           /\ running[c].disk_reads = 2
              => documents[running[c].file_id] = running[c].doc

\* Both callers loaded the same stored identifier, each found it absent from
\* memory and read both blobs, and both have returned
C23_Witness ==
    /\ \A c \in Callers :
         /\ running[c].op = "load"
         /\ running[c].pc = "done"
         /\ running[c].held
         /\ running[c].kind = "doc"
         /\ running[c].disk_reads = 2
    /\ running["a"].file_id = running["b"].file_id

\* The blobs and the memory entry of the identifier of a process_document
\* call are what the position and the locals of that call alone determine;
\* the entry may be the one a load_document rebuilt from the blobs
OwnBlobs(p, index_blobs, chunk_blobs, in_memory) ==
    /\ index_files[p.file_id] \in index_blobs
    /\ chunk_files[p.file_id] \in chunk_blobs
    /\ (p.file_id \in DOMAIN documents) \in in_memory
    /\ p.file_id \in DOMAIN documents
       => documents[p.file_id] \in
             {NewEntry(p.file_id, p.filename, p.chunks, p.index),
              LoadedEntry(p.file_id, p.index, p.chunks)}

\* C24: process_document calls that run at the same time have different
\* identifiers, and at every step of every interleaving the blobs and the
\* memory entry of each call's identifier are those the call itself has
\* written so far; when the calls are over, the map and the disk hold for
\* each identifier what its call alone produces.
C24_ProcessCallsAreIndependent ==
    /\ \A c \in Callers, d \in Callers :
         (c # d /\ running[c].op = "process" /\ running[d].op = "process")
         => running[c].file_id # running[d].file_id
    /\ \A c \in Callers :
         running[c].op = "process" =>
         LET p == running[c] IN
         IF p.status = "ok"
         THEN OwnBlobs(p, {IndexBlob(p.index)}, {ChunksBlob(p.chunks)}, {TRUE})
         ELSE IF p.status = "raise"
         THEN IF p.step \in {"text", "embed"}
              THEN /\ index_files[p.file_id] = NoFile
                   /\ chunk_files[p.file_id] = NoFile
                   /\ p.file_id \notin DOMAIN documents
              ELSE IF p.step = "write_index"
              THEN OwnBlobs(p, FailedWrites, {NoFile}, {FALSE})
              ELSE OwnBlobs(p, {IndexBlob(p.index)}, FailedWrites, {FALSE})
         ELSE IF ProcessOrder[p.at] = "create_index"
         THEN OwnBlobs(p, {NoFile}, {NoFile}, {FALSE})
         ELSE IF ProcessOrder[p.at] = "write_index"
         THEN OwnBlobs(p, {CorruptFile}, {NoFile}, {FALSE})
         ELSE IF ProcessOrder[p.at] = "create_chunks"
         THEN OwnBlobs(p, {IndexBlob(p.index)}, {NoFile}, {FALSE})
         ELSE IF ProcessOrder[p.at] = "write_chunks"
         THEN OwnBlobs(p, {IndexBlob(p.index)}, {CorruptFile}, {FALSE})
         ELSE OwnBlobs(p, {IndexBlob(p.index)}, {ChunksBlob(p.chunks)}, BOOLEAN)

\* Two process_document calls ran at the same time and both are over: the
\* map holds the entry of each
C24_Witness ==
    /\ \A c \in Callers :
         /\ running[c].op = "process"
         /\ running[c].status = "ok"
         /\ documents[running[c].file_id] =
               NewEntry(running[c].file_id, running[c].filename,
                        running[c].chunks, running[c].index)
    /\ \E c \in Callers : running[c].overlapped
    /\ running["a"].chunks # running["b"].chunks

\* C30: a load_document that has returned while a process_document of the
\* same identifier is running or has just ended returned None or a document
\* with all the chunks of that call, their count, and an index of as many
\* vectors; the entry self.documents holds for the identifier, if any, is
\* such a document too, and it is there once process_document has ended.
C30_LoadDuringProcessIsAllOrNothing ==
    \A c \in Callers :
        running[c].op = "process" =>
        LET p == running[c] IN
        /\ \A d \in Callers :
             (/\ running[d].op = "load"
              /\ running[d].pc = "done"
              /\ running[d].file_id = p.file_id)
             => \/ running[d].kind = "none"
                \/ /\ running[d].kind = "doc"
                   /\ "chunks" \in DOMAIN p
                   /\ running[d].doc.chunks = p.chunks
                   /\ running[d].doc.num_chunks = Len(p.chunks)
                   /\ Len(running[d].doc.index) = Len(p.chunks)
        /\ p.file_id \in DOMAIN documents
           => /\ "chunks" \in DOMAIN p
              /\ documents[p.file_id].chunks = p.chunks
              /\ documents[p.file_id].num_chunks = Len(p.chunks)
              /\ Len(documents[p.file_id].index) = Len(p.chunks)
        /\ p.status = "ok" => p.file_id \in DOMAIN documents

\* process_document has written both blobs and has not stored its entry yet;
\* a load_document of its identifier has read the blobs meanwhile and has
\* returned the document
C30_Witness ==
    \E c \in Callers, d \in Callers :
        /\ running[c].op = "process"
        /\ running[c].status = "run"
        /\ running[d].op = "load"
        /\ running[d].pc = "done"
        /\ running[d].file_id = running[c].file_id
        /\ running[d].kind = "doc"
        /\ running[d].disk_reads = 2
        /\ Len(running[d].doc.chunks) = MaxChunks

=============================================================================
